---------------------------- MODULE Spec2Model ----------------------------
(***************************************************************************)
(* Fraud classification engine of KNNURA: the manual allow/deny lists, the *)
(* IP reputation resolver with its LRU cache, the behavior analyzer and    *)
(* the priority cascade of classify().                                     *)
(*                                                                         *)
(* Strings the code searches or builds (organization names, ASN strings,   *)
(* IP strings, browser names, reason texts) are tuples of one-character    *)
(* strings, so that includes(), toLowerCase(), split() and the template    *)
(* literals are computed as the code computes them.  Strings the code only *)
(* copies or compares as a whole (labels, flags, device types, country     *)
(* fields) are TLA+ strings.  An optional value (undefined / null in the   *)
(* code) is None, a present one Some(x).                                   *)
(***************************************************************************)
EXTENDS Integers, Sequences, FiniteSets, TLC

VARIABLES
    manualWhitelist,   \* part_001:229  Set<string>
    manualBlacklist,   \* part_001:230  Set<string>
    ipCache,           \* cache.ts:163  the LRUCache singleton of getIpCache()
    now,               \* Date.now(), in ms
    pc,                \* position of the classification request
    input,             \* the ClassifyInput of the request in progress
    out,               \* what classify() returned for it
    cache,             \* cache.ts:22   an LRUCache instance used on its own
    call,              \* the last call made on it, with what it returned
    request,           \* part_002:90   the HTTP request being handled
    response,          \* the HTTP response to the latest request
    fraudChecks,       \* db.ts:166     the insertFraudCheck calls made
    ipLists,           \* db.ts:380     the ip_lists collection
    batch,             \* part_001:202  a checkMultipleIps call
    inFlight,             \* part_001:298  classify() calls in flight together
    detector           \* fraud-detector.ts:360  a FraudDetector in the browser

vars == <<manualWhitelist, manualBlacklist, ipCache, now, pc, input, out,
          cache, call, request, response, fraudChecks, ipLists, batch, inFlight,
          detector>>

\* the LRUCache instance used on its own
lruVars == <<cache, call>>

\* the state of the classification engine except the clock
engineVars == <<manualWhitelist, manualBlacklist, ipCache, pc, input, out>>

\* the API routes and what they write
routeVars == <<request, response, fraudChecks, ipLists>>

\* the batch resolver
batchVars == <<batch>>

\* the classify() calls in flight together
callVars == <<inFlight>>

\* the browser side
clientVars == <<detector>>

None == <<>>
Some(x) == <<x>>
IsSome(o) == o # <<>>
Get(o) == o[1]

(***************************************************************************)
(* Bounds of the model.                                                    *)
(***************************************************************************)
\* Largest pointer-movement count a request carries.
MaxMoves == 41
\* Largest touch-event count a request carries.
MaxTouch == 8
\* Number of clock ticks explored; a tick is just over one reputation TTL.
MaxTicks == 1
\* Number of cache reads (hits + misses) explored.
MaxGets == 2
\* maxSize of the LRUCache instance used on its own.
TestMaxSize == 2
\* Its defaultTtlMs.
TestTtlMs == 1
\* Last instant of the clock while that instance is used.
MaxTime == 2

(***************************************************************************)
(* fraud-config.ts                                                         *)
(***************************************************************************)
\* Faulty variant: both GOOD cut points are one too high.
BEHAVIOR_THRESHOLDS_offByOne ==
    [desktop |-> [mouseMovements |-> [good |-> 41, warn |-> 20]],
     mobile  |-> [touchEvents    |-> [good |-> 8,  warn |-> 3]]]

BEHAVIOR_THRESHOLDS ==
    [desktop |-> [mouseMovements |-> [good |-> 40, warn |-> 20]],
     mobile  |-> [touchEvents    |-> [good |-> 7,  warn |-> 3]]]

SCORING_WEIGHTS == [ipReputation |-> 60, deviceFingerprint |-> 30, behavior |-> 10]

MOBILE_CARRIER_ASNS ==
    [india |-> {55836, 45609, 24560, 9498, 45514, 55410, 38266, 9829, 4755,
                17747, 18101},
     usa   |-> {7018, 20115, 22394, 6167, 21928, 20057},
     other |-> {12576, 23455, 34984, 5384, 15802, 24218, 10091}]

ALL_CARRIER_ASNS ==
    MOBILE_CARRIER_ASNS.india \cup MOBILE_CARRIER_ASNS.usa \cup MOBILE_CARRIER_ASNS.other

VPN_KEYWORDS ==
    << <<"v","p","n">>, <<"p","r","o","x","y">>, <<"t","o","r">>, <<"t","u","n","n","e","l">>, <<"a","n","o","n","y","m","o","u">>,
       <<"p","r","i","v","a","t","e"," ","i","n","t","e","r","n","e","t">>, <<"s","u","r","f","s","h","a","r","k">>, <<"n","o","r","d","v","p","n">>, <<"e","x","p","r","e","s","s","v","p","n">>,
       <<"c","y","b","e","r","g","h","o","s","t">>, <<"p","u","r","e","v","p","n">>, <<"i","p","v","a","n","i","s","h">>, <<"p","r","o","t","o","n","v","p","n">>, <<"m","u","l","l","v","a","d">>,
       <<"w","i","n","d","s","c","r","i","b","e">>, <<"h","o","t","s","p","o","t"," ","s","h","i","e","l","d">>, <<"h","m","a">>, <<"h","i","d","e",".","m","e">>,
       <<"p","r","i","v","a","t","e","v","p","n">>, <<"s","t","r","o","n","g","v","p","n">>, <<"t","o","r","g","u","a","r","d">> >>

DATACENTER_KEYWORDS ==
    << <<"a","m","a","z","o","n">>, <<"a","w","s">>, <<"e","c","2">>, <<"c","l","o","u","d","f","r","o","n","t">>,
       <<"g","o","o","g","l","e">>, <<"g","c","p">>, <<"c","l","o","u","d">>,
       <<"m","i","c","r","o","s","o","f","t">>, <<"a","z","u","r","e">>,
       <<"d","i","g","i","t","a","l","o","c","e","a","n">>, <<"l","i","n","o","d","e">>, <<"v","u","l","t","r">>, <<"h","e","t","z","n","e","r">>,
       <<"o","v","h">>, <<"s","c","a","l","e","w","a","y">>, <<"u","p","c","l","o","u","d">>,
       <<"h","o","s","t","i","n","g">>, <<"s","e","r","v","e","r">>, <<"d","a","t","a","c","e","n","t","e","r">>, <<"d","a","t","a"," ","c","e","n","t","e","r">>,
       <<"c","o","l","o","c","a","t","i","o","n">>, <<"c","o","l","o">>, <<"d","e","d","i","c","a","t","e","d">>,
       <<"c","l","o","u","d","f","l","a","r","e">>, <<"f","a","s","t","l","y">>, <<"a","k","a","m","a","i">>, <<"c","d","n">>,
       <<"r","a","c","k","s","p","a","c","e">>, <<"g","o","d","a","d","d","y">>, <<"b","l","u","e","h","o","s","t">>, <<"h","o","s","t","i","n","g","e","r">>,
       <<"v","p","s">>, <<"v","i","r","t","u","a","l"," ","p","r","i","v","a","t","e">>, <<"v","i","r","t","u","a","l"," ","s","e","r","v","e","r">> >>

DATACENTER_ASNS ==
    {16509, 14618, 8987, 15169, 396982, 8075, 8068, 8069, 14061, 63949,
     20473, 16276, 24940, 13335}

HIGH_RISK_BROWSERS == << <<"f","a","c","e","b","o","o","k">>, <<"f","a","c","e","b","o","o","k"," ","m","e","s","s","e","n","g","e","r">>, <<"o","p","e","r","a"," ","m","i","n","i">> >>

\* CACHE_CONFIG.ip
ipMaxSize == 1000
ipTtlMs == 60 * 60 * 1000

(***************************************************************************)
(* String primitives of the JavaScript runtime, as the code uses them.     *)
(***************************************************************************)
Digits == <<"0","1","2","3","4","5","6","7","8","9">>

IsDigit(c) == \E i \in 1..10 : Digits[i] = c

DigitValue(c) == (CHOOSE i \in 1..10 : Digits[i] = c) - 1

IsHex(c) == IsDigit(c) \/ c \in {"a","b","c","d","e","f","A","B","C","D","E","F"}

UpperCase == <<"A","B","C","D","E","F","G","H","I","J","K","L","M",
               "N","O","P","Q","R","S","T","U","V","W","X","Y","Z">>
LowerCase == <<"a","b","c","d","e","f","g","h","i","j","k","l","m",
               "n","o","p","q","r","s","t","u","v","w","x","y","z">>

\* String.prototype.toLowerCase
toLowerCase(s) ==
    [i \in 1..Len(s) |->
        IF \E j \in 1..26 : UpperCase[j] = s[i]
        THEN LowerCase[CHOOSE j \in 1..26 : UpperCase[j] = s[i]]
        ELSE s[i]]

\* String.prototype.includes
includes(s, k) ==
    \E i \in 1..(Len(s) - Len(k) + 1) : \A j \in 1..Len(k) : s[i + j - 1] = k[j]

\* Array.prototype.some over a keyword list
some(keywords, s) == \E i \in 1..Len(keywords) : includes(s, keywords[i])

\* String.prototype.split on a one-character separator
RECURSIVE split(_, _)
split(s, sep) ==
    IF \A i \in 1..Len(s) : s[i] # sep
    THEN <<s>>
    ELSE LET p == CHOOSE i \in 1..Len(s) :
                     s[i] = sep /\ \A j \in 1..(i - 1) : s[j] # sep
         IN  <<SubSeq(s, 1, p - 1)>> \o split(SubSeq(s, p + 1, Len(s)), sep)

\* parseInt(ds, 10) of a non-empty run of decimal digits
RECURSIVE parseInt(_)
parseInt(ds) ==
    IF Len(ds) = 0 THEN 0
    ELSE 10 * parseInt(SubSeq(ds, 1, Len(ds) - 1)) + DigitValue(ds[Len(ds)])

\* `${n}` of a non-negative integer
RECURSIVE ToDecimal(_)
ToDecimal(n) ==
    IF n < 10 THEN <<Digits[n + 1]>>
    ELSE ToDecimal(n \div 10) \o <<Digits[(n % 10) + 1]>>

\* Math.round of num / 100 for num >= 0 (halves round up)
RoundDiv100(num) == (num + 50) \div 100

Max(a, b) == IF a >= b THEN a ELSE b

(***************************************************************************)
(* cache.ts: LRUCache.  The Map is a sequence in insertion order; hits,     *)
(* misses and size are the fields of stats, and stats.maxSize is the       *)
(* constructor's maxSize.  Every operation returns the cache after the     *)
(* call.                                                                   *)
(***************************************************************************)
NewCache(maxSize, defaultTtlMs) ==
    [entries |-> <<>>, maxSize |-> maxSize, defaultTtlMs |-> defaultTtlMs,
     hits |-> 0, misses |-> 0, size |-> 0]

\* Map.has
MapHas(entries, key) == \E i \in 1..Len(entries) : entries[i].key = key

\* Map.get of a key the map holds
MapGet(entries, key) == entries[CHOOSE i \in 1..Len(entries) : entries[i].key = key]

\* Map.delete
MapDelete(entries, key) == SelectSeq(entries, LAMBDA e : e.key # key)

\* Faulty variant: the last key in insertion order is the victim.
evictOldest_newest(entries) ==
    IF Len(entries) > 0 /\ entries[Len(entries)].key # <<>>
    THEN MapDelete(entries, entries[Len(entries)].key)
    ELSE entries

\* LRUCache.evictOldest: the first key in insertion order, deleted
\* `if (firstKey)`: an empty Map gives undefined, and the empty string is
\* falsy as well.
evictOldest(entries) ==
    IF Len(entries) > 0 /\ entries[1].key # <<>>
    THEN MapDelete(entries, entries[1].key)
    ELSE entries

\* LRUCache.get: [cache, value]
LRUCache_get(c, key, t) ==
    IF ~MapHas(c.entries, key)
    THEN [cache |-> [c EXCEPT !.misses = @ + 1], value |-> None]
    ELSE LET entry == MapGet(c.entries, key) IN
         IF t > entry.expiresAt
         THEN [cache |-> [c EXCEPT !.entries = MapDelete(@, key),
                                   !.size = Len(MapDelete(c.entries, key)),
                                   !.misses = @ + 1],
               value |-> None]
         ELSE [cache |-> [c EXCEPT
                   !.entries = Append(MapDelete(@, key),
                                      [entry EXCEPT !.lastAccessed = t]),
                   !.hits = @ + 1],
               value |-> Some(entry.value)]

\* Faulty variant: the key is stored again without the old entry being
\* removed.
LRUCache_setTtl_noDelete(c, key, value, ttlMs, t) ==
    LET ttl == IF IsSome(ttlMs) THEN Get(ttlMs) ELSE c.defaultTtlMs
        kept == IF Len(c.entries) >= c.maxSize /\ ~MapHas(c.entries, key)
                THEN evictOldest(c.entries)
                ELSE c.entries
    IN  [c EXCEPT !.entries =
            Append(kept,
                   [key |-> key, value |-> value,
                    expiresAt |-> t + ttl, lastAccessed |-> t]),
                  !.size = Len(kept) + 1]

\* LRUCache.set; ttlMs is None when the argument is omitted
LRUCache_setTtl(c, key, value, ttlMs, t) ==
    LET ttl == IF IsSome(ttlMs) THEN Get(ttlMs) ELSE c.defaultTtlMs
        kept == IF Len(c.entries) >= c.maxSize /\ ~MapHas(c.entries, key)
                THEN evictOldest(c.entries)
                ELSE c.entries
    IN  [c EXCEPT !.entries =
            Append(MapDelete(kept, key),
                   [key |-> key, value |-> value,
                    expiresAt |-> t + ttl, lastAccessed |-> t]),
                  !.size = Len(MapDelete(kept, key)) + 1]

\* LRUCache.set with the default TTL
LRUCache_set(c, key, value, t) == LRUCache_setTtl(c, key, value, None, t)

\* Faulty variant: an entry is expired from its expiry instant on.
LRUCache_has_expiredAtDeadline(c, key, t) ==
    IF ~MapHas(c.entries, key)
    THEN [cache |-> c, value |-> FALSE]
    ELSE IF t >= MapGet(c.entries, key).expiresAt
    THEN [cache |-> [c EXCEPT !.entries = MapDelete(@, key),
                              !.size = Len(MapDelete(c.entries, key))],
          value |-> FALSE]
    ELSE [cache |-> c, value |-> TRUE]

\* Faulty variant: has() promotes the entry as get() does.
LRUCache_has_promoting(c, key, t) ==
    IF ~MapHas(c.entries, key)
    THEN [cache |-> c, value |-> FALSE]
    ELSE LET entry == MapGet(c.entries, key) IN
         IF t > entry.expiresAt
         THEN [cache |-> [c EXCEPT !.entries = MapDelete(@, key),
                                   !.size = Len(MapDelete(c.entries, key))],
               value |-> FALSE]
         ELSE [cache |-> [c EXCEPT !.entries =
                              Append(MapDelete(@, key), entry)],
               value |-> TRUE]

\* LRUCache.has: [cache, value]
LRUCache_has(c, key, t) ==
    IF ~MapHas(c.entries, key)
    THEN [cache |-> c, value |-> FALSE]
    ELSE IF t > MapGet(c.entries, key).expiresAt
    THEN [cache |-> [c EXCEPT !.entries = MapDelete(@, key),
                              !.size = Len(MapDelete(c.entries, key))],
          value |-> FALSE]
    ELSE [cache |-> c, value |-> TRUE]

\* Faulty variant: delete reports the entry and leaves it in the cache.
LRUCache_delete_keepsEntry(c, key) ==
    [cache |-> c, value |-> MapHas(c.entries, key)]

\* LRUCache.delete: [cache, value]
LRUCache_delete(c, key) ==
    [cache |-> [c EXCEPT !.entries = MapDelete(@, key),
                         !.size = Len(MapDelete(c.entries, key))],
     value |-> MapHas(c.entries, key)]

\* LRUCache.clear
LRUCache_clear(c) == [c EXCEPT !.entries = <<>>, !.size = 0]

\* Faulty variant: an entry is swept from its expiry instant on.
LRUCache_cleanup_atDeadline(c, t) ==
    LET kept == SelectSeq(c.entries, LAMBDA e : ~(t >= e.expiresAt))
    IN  [cache |-> [c EXCEPT !.entries = kept, !.size = Len(kept)],
         value |-> Len(c.entries) - Len(kept)]

\* LRUCache.cleanup: [cache, value]
LRUCache_cleanup(c, t) ==
    LET kept == SelectSeq(c.entries, LAMBDA e : ~(t > e.expiresAt))
    IN  [cache |-> [c EXCEPT !.entries = kept, !.size = Len(kept)],
         value |-> Len(c.entries) - Len(kept)]

\* Faulty variant: a lookup that finds nothing is not counted.
getStats_missesDropped(c) ==
    LET total == c.hits
        hitRate == IF total > 0 THEN <<c.hits, total>> ELSE <<0, 1>>
    IN  [hits |-> c.hits, misses |-> 0, size |-> c.size,
         maxSize |-> c.maxSize, hitRate |-> hitRate]

\* LRUCache.getStats.  hitRate is the quotient hits / total, kept as the
\* pair <<numerator, denominator>>; the number 0 is <<0, 1>>.
getStats(c) ==
    LET total == c.hits + c.misses
        hitRate == IF total > 0 THEN <<c.hits, total>> ELSE <<0, 1>>
    IN  [hits |-> c.hits, misses |-> c.misses, size |-> c.size,
         maxSize |-> c.maxSize, hitRate |-> hitRate]

(***************************************************************************)
(* ip-reputation (part_001:1-248)                                          *)
(***************************************************************************)
isValidIp(ip) ==
    LET octets == split(ip, ".")
        groups == split(ip, ":")
        ipv4Regex ==
            /\ Len(octets) = 4
            /\ \A i \in 1..4 :
                  /\ Len(octets[i]) \in 1..3
                  /\ \A j \in 1..Len(octets[i]) : IsDigit(octets[i][j])
        ipv6Regex ==
            /\ Len(groups) \in 3..8
            /\ \A i \in 1..Len(groups) :
                  /\ Len(groups[i]) \in 0..4
                  /\ \A j \in 1..Len(groups[i]) : IsHex(groups[i][j])
    IN  IF ipv4Regex
        THEN \A i \in 1..4 : parseInt(octets[i]) >= 0 /\ parseInt(octets[i]) <= 255
        ELSE ipv6Regex

\* the first maximal run of digits (/\d+/), parsed; null if there is none
parseAsn(asnString) ==
    IF Len(asnString) = 0 THEN None
    ELSE IF \A i \in 1..Len(asnString) : ~IsDigit(asnString[i]) THEN None
    ELSE LET first == CHOOSE i \in 1..Len(asnString) :
                          /\ IsDigit(asnString[i])
                          /\ \A j \in 1..(i - 1) : ~IsDigit(asnString[j])
             last  == CHOOSE i \in first..Len(asnString) :
                          /\ \A j \in first..i : IsDigit(asnString[j])
                          /\ (i = Len(asnString) \/ ~IsDigit(asnString[i + 1]))
         IN  Some(parseInt(SubSeq(asnString, first, last)))

parseIpApiResponse(data) ==
    LET asnNumber == parseAsn(data.asn)
        org == toLowerCase(data.org)
        isMobileCarrier == IsSome(asnNumber) /\ Get(asnNumber) \in ALL_CARRIER_ASNS
        isDatacenterAsn == IsSome(asnNumber) /\ Get(asnNumber) \in DATACENTER_ASNS
        isVpn == some(VPN_KEYWORDS, org)
        isDatacenterName == some(DATACENTER_KEYWORDS, org)
    IN  [ip |-> data.ip,
         isVpn |-> isVpn,
         isDatacenter |-> isDatacenterAsn \/ isDatacenterName,
         isMobileCarrier |-> isMobileCarrier,
         isProxy |-> FALSE,
         isTor |-> includes(org, <<"t","o","r"," ","e","x","i","t">>) \/ includes(org, <<"t","o","r"," ","p","r","o","j","e","c","t">>),
         asn |-> asnNumber,
         org |-> data.org,
         isp |-> data.org,
         country |-> data.country,
         countryCode |-> data.country_code,
         region |-> data.region,
         city |-> data.city,
         cached |-> FALSE]

createUnknownResult(ip) ==
    [ip |-> ip, isVpn |-> FALSE, isDatacenter |-> FALSE,
     isMobileCarrier |-> FALSE, isProxy |-> FALSE, isTor |-> FALSE,
     asn |-> None, org |-> <<>>, isp |-> <<>>, country |-> "",
     countryCode |-> "", region |-> "", city |-> "", cached |-> FALSE]

\* fetchIpReputation: the record, or None when it throws.  `up` is what the
\* provider does with this call; its body echoes the queried address.
fetchIpReputation(ip, up) ==
    IF up.kind = "ok"
    THEN Some(parseIpApiResponse(
             [ip |-> ip, org |-> up.data.org, asn |-> up.data.asn,
              country |-> up.data.country, country_code |-> up.data.country_code,
              region |-> up.data.region, city |-> up.data.city]))
    ELSE None

\* Faulty variant: the cache is consulted before the address is validated.
checkIpReputation_lookupFirst(ip, c, t) ==
    LET got == LRUCache_get(c, ip, t) IN
    IF ~isValidIp(ip)
    THEN [resolved |-> TRUE, rep |-> Some(createUnknownResult(ip)),
          cache |-> got.cache]
    ELSE IF IsSome(got.value)
         THEN [resolved |-> TRUE,
               rep |-> Some([Get(got.value) EXCEPT !.cached = TRUE]),
               cache |-> got.cache]
         ELSE [resolved |-> FALSE, rep |-> None, cache |-> got.cache]

\* checkIpReputation up to its return or to `await fetchIpReputation(ip)`
\* (part_001:48-62): [resolved, rep, cache].
checkIpReputation(ip, c, t) ==
    IF ~isValidIp(ip)
    THEN [resolved |-> TRUE, rep |-> Some(createUnknownResult(ip)), cache |-> c]
    ELSE LET got == LRUCache_get(c, ip, t) IN
         IF IsSome(got.value)
         THEN [resolved |-> TRUE,
               rep |-> Some([Get(got.value) EXCEPT !.cached = TRUE]),
               cache |-> got.cache]
         ELSE [resolved |-> FALSE, rep |-> None, cache |-> got.cache]

\* Faulty variant: a failed lookup is reported as a datacenter address.
checkIpReputationResume_failureIsSignal(ip, c, t, up) ==
    LET result == fetchIpReputation(ip, up) IN
    IF IsSome(result)
    THEN [rep |-> Get(result), cache |-> LRUCache_set(c, ip, Get(result), t)]
    ELSE [rep |-> [createUnknownResult(ip) EXCEPT !.isDatacenter = TRUE],
          cache |-> c]

\* Faulty variant: the fresh record is returned without being stored.
checkIpReputationResume_noStore(ip, c, t, up) ==
    LET result == fetchIpReputation(ip, up) IN
    IF IsSome(result)
    THEN [rep |-> Get(result), cache |-> c]
    ELSE [rep |-> createUnknownResult(ip), cache |-> c]

\* Faulty variant: the neutral record of a failed lookup is stored.
checkIpReputationResume_cachesFailure(ip, c, t, up) ==
    LET result == fetchIpReputation(ip, up) IN
    IF IsSome(result)
    THEN [rep |-> Get(result), cache |-> LRUCache_set(c, ip, Get(result), t)]
    ELSE [rep |-> createUnknownResult(ip),
          cache |-> LRUCache_set(c, ip, createUnknownResult(ip), t)]

\* checkIpReputation from the provider's answer on (part_001:62-73):
\* [rep, cache].
checkIpReputationResume(ip, c, t, up) ==
    LET result == fetchIpReputation(ip, up) IN
    IF IsSome(result)
    THEN [rep |-> Get(result), cache |-> LRUCache_set(c, ip, Get(result), t)]
    ELSE [rep |-> createUnknownResult(ip), cache |-> c]

\* Faulty variant: the address stays on the deny list.
addToWhitelist_keepsDenied(W, B, ip) == [whitelist |-> W \cup {ip}, blacklist |-> B]

addToWhitelist(W, B, ip) == [whitelist |-> W \cup {ip}, blacklist |-> B \ {ip}]

addToBlacklist(W, B, ip) == [whitelist |-> W \ {ip}, blacklist |-> B \cup {ip}]

\* Faulty variant: the allow list is consulted with the empty string.
isWhitelisted_wrongKey(W, ip) == <<>> \in W

isWhitelisted(W, ip) == ip \in W

\* Faulty variant: the deny list is never consulted.
isBlacklisted_never(B, ip) == FALSE

isBlacklisted(B, ip) == ip \in B

(***************************************************************************)
(* classifier (part_001:250-623)                                           *)
(***************************************************************************)
DeviceTypeText ==
    [desktop |-> <<"d","e","s","k","t","o","p">>, mobile |-> <<"m","o","b","i","l","e">>, tablet |-> <<"t","a","b","l","e","t">>,
     bot |-> <<"b","o","t">>, unknown |-> <<"u","n","k","n","o","w","n">>]

\* Faulty variant: on a desktop the touch events count as mouse movements.
analyzeBehavior_touchCountsOnDesktop(deviceType, behavior) ==
    IF deviceType = "bot" \/ deviceType = "unknown"
    THEN [score |-> 0, classification |-> "BAD",
          reason |-> <<"S","u","s","p","i","c","i","o","u","s"," ","d","e","v","i","c","e"," ","t","y","p","e",":"," ">> \o DeviceTypeText[deviceType],
          flags |-> <<"suspicious_device_type">>]
    ELSE IF deviceType = "desktop"
    THEN LET thresholds == BEHAVIOR_THRESHOLDS.desktop
             mouseMovements == behavior.mouseMovements + behavior.touchEvents
         IN  IF mouseMovements >= thresholds.mouseMovements.good
             THEN [score |-> 100, classification |-> "GOOD",
                   reason |-> <<"G","o","o","d"," ","d","e","s","k","t","o","p"," ","b","e","h","a","v","i","o","r",":"," ">>
                              \o ToDecimal(mouseMovements) \o <<" ","m","o","u","s","e"," ","m","o","v","e","m","e","n","t","s">>,
                   flags |-> <<"good_mouse_behavior">>]
             ELSE IF mouseMovements >= thresholds.mouseMovements.warn
             THEN [score |-> 60, classification |-> "WARN",
                   reason |-> <<"L","o","w"," ","m","o","u","s","e"," ","m","o","v","e","m","e","n","t","s",":"," ">>
                              \o ToDecimal(mouseMovements) \o <<" ","(","t","h","r","e","s","h","o","l","d",":"," ">>
                              \o ToDecimal(thresholds.mouseMovements.good) \o <<")">>,
                   flags |-> <<"low_mouse_movements">>]
             ELSE [score |-> 40, classification |-> "WARN",
                   reason |-> <<"V","e","r","y"," ","l","o","w"," ","m","o","u","s","e"," ","m","o","v","e","m","e","n","t","s",":"," ">>
                              \o ToDecimal(mouseMovements),
                   flags |-> <<"very_low_mouse_movements">>]
    ELSE IF deviceType = "mobile" \/ deviceType = "tablet"
    THEN LET thresholds == BEHAVIOR_THRESHOLDS.mobile
             touchEvents == behavior.touchEvents
         IN  IF touchEvents >= thresholds.touchEvents.good
             THEN [score |-> 100, classification |-> "GOOD",
                   reason |-> <<"G","o","o","d"," ","m","o","b","i","l","e"," ","b","e","h","a","v","i","o","r",":"," ">>
                              \o ToDecimal(touchEvents) \o <<" ","t","o","u","c","h"," ","e","v","e","n","t","s">>,
                   flags |-> <<"good_touch_behavior">>]
             ELSE IF touchEvents >= thresholds.touchEvents.warn
             THEN [score |-> 60, classification |-> "WARN",
                   reason |-> <<"L","o","w"," ","t","o","u","c","h"," ","e","v","e","n","t","s",":"," ">>
                              \o ToDecimal(touchEvents) \o <<" ","(","t","h","r","e","s","h","o","l","d",":"," ">>
                              \o ToDecimal(thresholds.touchEvents.good) \o <<")">>,
                   flags |-> <<"low_touch_events">>]
             ELSE [score |-> 40, classification |-> "WARN",
                   reason |-> <<"V","e","r","y"," ","l","o","w"," ","t","o","u","c","h"," ","e","v","e","n","t","s",":"," ">> \o ToDecimal(touchEvents),
                   flags |-> <<"very_low_touch_events">>]
    ELSE [score |-> 50, classification |-> "WARN",
          reason |-> <<"U","n","k","n","o","w","n"," ","b","e","h","a","v","i","o","r"," ","p","a","t","t","e","r","n">>,
          flags |-> <<"unknown_behavior">>]

analyzeBehavior(deviceType, behavior) ==
    IF deviceType = "bot" \/ deviceType = "unknown"
    THEN [score |-> 0, classification |-> "BAD",
          reason |-> <<"S","u","s","p","i","c","i","o","u","s"," ","d","e","v","i","c","e"," ","t","y","p","e",":"," ">> \o DeviceTypeText[deviceType],
          flags |-> <<"suspicious_device_type">>]
    ELSE IF deviceType = "desktop"
    THEN LET thresholds == BEHAVIOR_THRESHOLDS.desktop
             mouseMovements == behavior.mouseMovements
         IN  IF mouseMovements >= thresholds.mouseMovements.good
             THEN [score |-> 100, classification |-> "GOOD",
                   reason |-> <<"G","o","o","d"," ","d","e","s","k","t","o","p"," ","b","e","h","a","v","i","o","r",":"," ">>
                              \o ToDecimal(mouseMovements) \o <<" ","m","o","u","s","e"," ","m","o","v","e","m","e","n","t","s">>,
                   flags |-> <<"good_mouse_behavior">>]
             ELSE IF mouseMovements >= thresholds.mouseMovements.warn
             THEN [score |-> 60, classification |-> "WARN",
                   reason |-> <<"L","o","w"," ","m","o","u","s","e"," ","m","o","v","e","m","e","n","t","s",":"," ">>
                              \o ToDecimal(mouseMovements) \o <<" ","(","t","h","r","e","s","h","o","l","d",":"," ">>
                              \o ToDecimal(thresholds.mouseMovements.good) \o <<")">>,
                   flags |-> <<"low_mouse_movements">>]
             ELSE [score |-> 40, classification |-> "WARN",
                   reason |-> <<"V","e","r","y"," ","l","o","w"," ","m","o","u","s","e"," ","m","o","v","e","m","e","n","t","s",":"," ">>
                              \o ToDecimal(mouseMovements),
                   flags |-> <<"very_low_mouse_movements">>]
    ELSE IF deviceType = "mobile" \/ deviceType = "tablet"
    THEN LET thresholds == BEHAVIOR_THRESHOLDS.mobile
             touchEvents == behavior.touchEvents
         IN  IF touchEvents >= thresholds.touchEvents.good
             THEN [score |-> 100, classification |-> "GOOD",
                   reason |-> <<"G","o","o","d"," ","m","o","b","i","l","e"," ","b","e","h","a","v","i","o","r",":"," ">>
                              \o ToDecimal(touchEvents) \o <<" ","t","o","u","c","h"," ","e","v","e","n","t","s">>,
                   flags |-> <<"good_touch_behavior">>]
             ELSE IF touchEvents >= thresholds.touchEvents.warn
             THEN [score |-> 60, classification |-> "WARN",
                   reason |-> <<"L","o","w"," ","t","o","u","c","h"," ","e","v","e","n","t","s",":"," ">>
                              \o ToDecimal(touchEvents) \o <<" ","(","t","h","r","e","s","h","o","l","d",":"," ">>
                              \o ToDecimal(thresholds.touchEvents.good) \o <<")">>,
                   flags |-> <<"low_touch_events">>]
             ELSE [score |-> 40, classification |-> "WARN",
                   reason |-> <<"V","e","r","y"," ","l","o","w"," ","t","o","u","c","h"," ","e","v","e","n","t","s",":"," ">> \o ToDecimal(touchEvents),
                   flags |-> <<"very_low_touch_events">>]
    ELSE [score |-> 50, classification |-> "WARN",
          reason |-> <<"U","n","k","n","o","w","n"," ","b","e","h","a","v","i","o","r"," ","p","a","t","t","e","r","n">>,
          flags |-> <<"unknown_behavior">>]

\* Faulty variant: an unremarkable address scores what a carrier's does in the
\* composite.
calculateIpScore_residential60(ipReputation) ==
    IF ipReputation.isMobileCarrier THEN 95
    ELSE IF ipReputation.isVpn \/ ipReputation.isTor THEN 0
    ELSE IF ipReputation.isDatacenter THEN 10
    ELSE IF ipReputation.isProxy THEN 20
    ELSE 60

calculateIpScore(ipReputation) ==
    IF ipReputation.isMobileCarrier THEN 95
    ELSE IF ipReputation.isVpn \/ ipReputation.isTor THEN 0
    ELSE IF ipReputation.isDatacenter THEN 10
    ELSE IF ipReputation.isProxy THEN 20
    ELSE 80

\* processingTime (a wall-clock difference) is not part of the model
createResult(classification, score, reason, t, flags, ipReputation, deviceType) ==
    [classification |-> classification,
     score |-> score,
     reason |-> reason,
     timestamp |-> t,
     details |-> [ipReputation |-> ipReputation,
                  deviceType |-> deviceType,
                  flags |-> flags]]

\* The locals of classify() at its return.  fetched counts the calls to the
\* provider.
Locals(result, ipReputation, behaviorResult, fetched) ==
    [result |-> result, ipReputation |-> ipReputation,
     behaviorResult |-> behaviorResult, fetched |-> fetched]

\* Faulty variant: a behavior score below 40 is labelled BAD.
classificationFromScore_lowIsBad(behaviorScore) ==
    IF behaviorScore >= 80 THEN "GOOD"
    ELSE IF behaviorScore >= 40 THEN "WARN"
    ELSE "BAD"

\* Faulty variant: GOOD needs the full behavior score.
classificationFromScore_goodAt100(behaviorScore) ==
    IF behaviorScore >= 100 THEN "GOOD"
    ELSE IF behaviorScore >= 40 THEN "WARN"
    ELSE "WARN"

\* "Determine classification from score" (part_001:403-416)
classificationFromScore(behaviorScore) ==
    IF behaviorScore >= 80 THEN "GOOD"
    ELSE IF behaviorScore >= 40 THEN "WARN"
    ELSE "WARN"

\* Faulty variant: the browser tag is pushed before the analyzer has run.
classifyByBehavior_browserFlagFirst(in, ipReputation, t, fetched) ==
    LET device == in.fingerprint.device
        behaviorResult == analyzeBehavior(device.type, in.behavior)
        browserLower == toLowerCase(device.browser)
        isHighRiskBrowser == some(HIGH_RISK_BROWSERS, browserLower)
        flags == IF isHighRiskBrowser
                 THEN <<"high_risk_browser">> \o behaviorResult.flags
                 ELSE behaviorResult.flags
        behaviorScore == IF isHighRiskBrowser
                         THEN Max(0, behaviorResult.score - 10)
                         ELSE behaviorResult.score
        finalScore == RoundDiv100(
            (IF ipReputation.isMobileCarrier THEN 60
             ELSE calculateIpScore(ipReputation)) * SCORING_WEIGHTS.ipReputation
            + (IF device.isFakeMobile \/ device.isAutomated THEN 0 ELSE 80)
                  * SCORING_WEIGHTS.deviceFingerprint
            + behaviorScore * SCORING_WEIGHTS.behavior)
        classification == classificationFromScore(behaviorScore)
    IN  Locals(createResult(classification, finalScore, behaviorResult.reason,
                            t, flags, Some(ipReputation), Some(device.type)),
               Some(ipReputation), Some(behaviorResult), fetched)

\* PRIORITY 7 of classify() (part_001:384-418).
classifyByBehavior(in, ipReputation, t, fetched) ==
    LET device == in.fingerprint.device
        behaviorResult == analyzeBehavior(device.type, in.behavior)
        browserLower == toLowerCase(device.browser)
        isHighRiskBrowser == some(HIGH_RISK_BROWSERS, browserLower)
        flags == IF isHighRiskBrowser
                 THEN behaviorResult.flags \o <<"high_risk_browser">>
                 ELSE behaviorResult.flags
        behaviorScore == IF isHighRiskBrowser
                         THEN Max(0, behaviorResult.score - 10)
                         ELSE behaviorResult.score
        finalScore == RoundDiv100(
            (IF ipReputation.isMobileCarrier THEN 60
             ELSE calculateIpScore(ipReputation)) * SCORING_WEIGHTS.ipReputation
            + (IF device.isFakeMobile \/ device.isAutomated THEN 0 ELSE 80)
                  * SCORING_WEIGHTS.deviceFingerprint
            + behaviorScore * SCORING_WEIGHTS.behavior)
        classification == classificationFromScore(behaviorScore)
    IN  Locals(createResult(classification, finalScore, behaviorResult.reason,
                            t, flags, Some(ipReputation), Some(device.type)),
               Some(ipReputation), Some(behaviorResult), fetched)

\* Faulty variant: the carrier rule is tested before the VPN, Tor and datacenter rules.
classifyByReputation_carrierFirst(in, ipReputation, t, fetched) ==
    IF ipReputation.isMobileCarrier
    THEN Locals(createResult("GOOD", 95,
                             <<"M","o","b","i","l","e"," ","c","a","r","r","i","e","r",":"," ">> \o ipReputation.org, t,
                             <<"mobile_carrier">>, Some(ipReputation), None),
                Some(ipReputation), None, fetched)
    ELSE IF ipReputation.isVpn
    THEN Locals(createResult("BAD", 5, <<"V","P","N"," ","d","e","t","e","c","t","e","d",":"," ">> \o ipReputation.org,
                             t, <<"vpn_detected">>, Some(ipReputation), None),
                Some(ipReputation), None, fetched)
    ELSE IF ipReputation.isTor
    THEN Locals(createResult("BAD", 0, <<"T","o","r"," ","e","x","i","t"," ","n","o","d","e"," ","d","e","t","e","c","t","e","d">>, t,
                             <<"tor_detected">>, Some(ipReputation), None),
                Some(ipReputation), None, fetched)
    ELSE IF ipReputation.isDatacenter
    THEN Locals(createResult("BAD", 10,
                             <<"D","a","t","a","c","e","n","t","e","r","/","h","o","s","t","i","n","g"," ","I","P",":"," ">> \o ipReputation.org,
                             t, <<"datacenter_ip">>, Some(ipReputation), None),
                Some(ipReputation), None, fetched)
    ELSE classifyByBehavior(in, ipReputation, t, fetched)

\* Faulty variant: the carrier rule is missing, carrier traffic goes to the analyzer.
classifyByReputation_noCarrierBypass(in, ipReputation, t, fetched) ==
    IF ipReputation.isVpn
    THEN Locals(createResult("BAD", 5, <<"V","P","N"," ","d","e","t","e","c","t","e","d",":"," ">> \o ipReputation.org,
                             t, <<"vpn_detected">>, Some(ipReputation), None),
                Some(ipReputation), None, fetched)
    ELSE IF ipReputation.isTor
    THEN Locals(createResult("BAD", 0, <<"T","o","r"," ","e","x","i","t"," ","n","o","d","e"," ","d","e","t","e","c","t","e","d">>, t,
                             <<"tor_detected">>, Some(ipReputation), None),
                Some(ipReputation), None, fetched)
    ELSE IF ipReputation.isDatacenter
    THEN Locals(createResult("BAD", 10,
                             <<"D","a","t","a","c","e","n","t","e","r","/","h","o","s","t","i","n","g"," ","I","P",":"," ">> \o ipReputation.org,
                             t, <<"datacenter_ip">>, Some(ipReputation), None),
                Some(ipReputation), None, fetched)
    ELSE classifyByBehavior(in, ipReputation, t, fetched)

\* Faulty variant: the carrier verdict carries score 59 instead of 95.
classifyByReputation_carrier59(in, ipReputation, t, fetched) ==
    IF ipReputation.isVpn
    THEN Locals(createResult("BAD", 5, <<"V","P","N"," ","d","e","t","e","c","t","e","d",":"," ">> \o ipReputation.org,
                             t, <<"vpn_detected">>, Some(ipReputation), None),
                Some(ipReputation), None, fetched)
    ELSE IF ipReputation.isTor
    THEN Locals(createResult("BAD", 0, <<"T","o","r"," ","e","x","i","t"," ","n","o","d","e"," ","d","e","t","e","c","t","e","d">>, t,
                             <<"tor_detected">>, Some(ipReputation), None),
                Some(ipReputation), None, fetched)
    ELSE IF ipReputation.isDatacenter
    THEN Locals(createResult("BAD", 10,
                             <<"D","a","t","a","c","e","n","t","e","r","/","h","o","s","t","i","n","g"," ","I","P",":"," ">> \o ipReputation.org,
                             t, <<"datacenter_ip">>, Some(ipReputation), None),
                Some(ipReputation), None, fetched)
    ELSE IF ipReputation.isMobileCarrier
    THEN Locals(createResult("GOOD", 59,
                             <<"M","o","b","i","l","e"," ","c","a","r","r","i","e","r",":"," ">> \o ipReputation.org, t,
                             <<"mobile_carrier">>, Some(ipReputation), None),
                Some(ipReputation), None, fetched)
    ELSE classifyByBehavior(in, ipReputation, t, fetched)

\* PRIORITY 5 and 6 of classify() once checkIpReputation has returned
\* ipReputation (part_001:351-378), then the behavior rule.
classifyByReputation(in, ipReputation, t, fetched) ==
    IF ipReputation.isVpn
    THEN Locals(createResult("BAD", 5, <<"V","P","N"," ","d","e","t","e","c","t","e","d",":"," ">> \o ipReputation.org,
                             t, <<"vpn_detected">>, Some(ipReputation), None),
                Some(ipReputation), None, fetched)
    ELSE IF ipReputation.isTor
    THEN Locals(createResult("BAD", 0, <<"T","o","r"," ","e","x","i","t"," ","n","o","d","e"," ","d","e","t","e","c","t","e","d">>, t,
                             <<"tor_detected">>, Some(ipReputation), None),
                Some(ipReputation), None, fetched)
    ELSE IF ipReputation.isDatacenter
    THEN Locals(createResult("BAD", 10,
                             <<"D","a","t","a","c","e","n","t","e","r","/","h","o","s","t","i","n","g"," ","I","P",":"," ">> \o ipReputation.org,
                             t, <<"datacenter_ip">>, Some(ipReputation), None),
                Some(ipReputation), None, fetched)
    ELSE IF ipReputation.isMobileCarrier
    THEN Locals(createResult("GOOD", 95,
                             <<"M","o","b","i","l","e"," ","c","a","r","r","i","e","r",":"," ">> \o ipReputation.org, t,
                             <<"mobile_carrier">>, Some(ipReputation), None),
                Some(ipReputation), None, fetched)
    ELSE classifyByBehavior(in, ipReputation, t, fetched)

\* A classify() call that has returned: its locals and the cache it leaves.
Returned(locals, c) == [returned |-> TRUE, locals |-> Some(locals), cache |-> c]

\* Faulty variant: the reputation is looked up before the device is examined.
classifyByDevice_lookupFirst(in, c, t) ==
    LET device == in.fingerprint.device
        checked == checkIpReputation(in.ip, c, t)
    IN
    IF device.isAutomated
    THEN Returned(Locals(createResult("BAD", 0,
                             <<"A","u","t","o","m","a","t","i","o","n"," ","d","e","t","e","c","t","e","d"," ","(","n","a","v","i","g","a","t","o","r",".","w","e","b","d","r","i","v","e","r",")">>,
                             t, <<"webdriver_detected">>, None, None),
                         None, None, 0), checked.cache)
    ELSE IF device.isHeadless
    THEN Returned(Locals(createResult("BAD", 0, <<"H","e","a","d","l","e","s","s"," ","b","r","o","w","s","e","r"," ","d","e","t","e","c","t","e","d">>,
                             t, <<"headless_browser">>, None, None),
                         None, None, 0), checked.cache)
    ELSE IF device.isFakeMobile
    THEN Returned(Locals(createResult("BAD", 0,
                             <<"F","a","k","e"," ","m","o","b","i","l","e"," ","d","e","v","i","c","e"," ","d","e","t","e","c","t","e","d"," ","(","e","m","u","l","a","t","o","r",")">>, t,
                             <<"fake_mobile">>, None, None),
                         None, None, 0), checked.cache)
    ELSE IF checked.resolved
         THEN Returned(classifyByReputation(in, Get(checked.rep), t, 0),
                       checked.cache)
         ELSE [returned |-> FALSE, locals |-> None, cache |-> checked.cache]

\* Faulty variant: the automation rule is missing.
classifyByDevice_noAutomation(in, c, t) ==
    LET device == in.fingerprint.device IN
    IF device.isHeadless
    THEN Returned(Locals(createResult("BAD", 0, <<"H","e","a","d","l","e","s","s"," ","b","r","o","w","s","e","r"," ","d","e","t","e","c","t","e","d">>,
                             t, <<"headless_browser">>, None, None),
                         None, None, 0), c)
    ELSE IF device.isFakeMobile
    THEN Returned(Locals(createResult("BAD", 0,
                             <<"F","a","k","e"," ","m","o","b","i","l","e"," ","d","e","v","i","c","e"," ","d","e","t","e","c","t","e","d"," ","(","e","m","u","l","a","t","o","r",")">>, t,
                             <<"fake_mobile">>, None, None),
                         None, None, 0), c)
    ELSE LET checked == checkIpReputation(in.ip, c, t) IN
         IF checked.resolved
         THEN Returned(classifyByReputation(in, Get(checked.rep), t, 0),
                       checked.cache)
         ELSE [returned |-> FALSE, locals |-> None, cache |-> checked.cache]

\* PRIORITY 2 to 4 of classify() (part_001:321-343), then the reputation
\* lookup (part_001:349), which returns at once or awaits the provider.
classifyByDevice(in, c, t) ==
    LET device == in.fingerprint.device IN
    IF device.isAutomated
    THEN Returned(Locals(createResult("BAD", 0,
                             <<"A","u","t","o","m","a","t","i","o","n"," ","d","e","t","e","c","t","e","d"," ","(","n","a","v","i","g","a","t","o","r",".","w","e","b","d","r","i","v","e","r",")">>,
                             t, <<"webdriver_detected">>, None, None),
                         None, None, 0), c)
    ELSE IF device.isHeadless
    THEN Returned(Locals(createResult("BAD", 0, <<"H","e","a","d","l","e","s","s"," ","b","r","o","w","s","e","r"," ","d","e","t","e","c","t","e","d">>,
                             t, <<"headless_browser">>, None, None),
                         None, None, 0), c)
    ELSE IF device.isFakeMobile
    THEN Returned(Locals(createResult("BAD", 0,
                             <<"F","a","k","e"," ","m","o","b","i","l","e"," ","d","e","v","i","c","e"," ","d","e","t","e","c","t","e","d"," ","(","e","m","u","l","a","t","o","r",")">>, t,
                             <<"fake_mobile">>, None, None),
                         None, None, 0), c)
    ELSE LET checked == checkIpReputation(in.ip, c, t) IN
         IF checked.resolved
         THEN Returned(classifyByReputation(in, Get(checked.rep), t, 0),
                       checked.cache)
         ELSE [returned |-> FALSE, locals |-> None, cache |-> checked.cache]

\* classify() up to its return or to the await of the provider's answer
\* (part_001:298-349): [returned, locals, cache].
classify(in, W, B, c, t) ==
    IF isBlacklisted(B, in.ip)
    THEN Returned(Locals(createResult("BAD", 0, <<"I","P"," ","i","s"," ","b","l","a","c","k","l","i","s","t","e","d">>, t, <<>>,
                                      None, None),
                         None, None, 0), c)
    ELSE IF isWhitelisted(W, in.ip)
    THEN Returned(Locals(createResult("GOOD", 100, <<"I","P"," ","i","s"," ","w","h","i","t","e","l","i","s","t","e","d">>, t,
                                      <<>>, None, None),
                         None, None, 0), c)
    ELSE classifyByDevice(in, c, t)

\* classify() from the provider's answer on (part_001:349-418):
\* [locals, cache].
classifyResume(in, c, t, up) ==
    LET checked == checkIpReputationResume(in.ip, c, t, up)
    IN  [locals |-> classifyByReputation(in, checked.rep, t, 1),
         cache |-> checked.cache]


\* classifySync (part_001:574-622), the synchronous version the unit tests
\* call
classifySync(ipReputation, fingerprint, behavior) ==
    IF fingerprint.device.isAutomated
    THEN [classification |-> "BAD", reason |-> <<"A","u","t","o","m","a","t","i","o","n"," ","d","e","t","e","c","t","e","d">>]
    ELSE IF fingerprint.device.isHeadless
    THEN [classification |-> "BAD", reason |-> <<"H","e","a","d","l","e","s","s"," ","b","r","o","w","s","e","r">>]
    ELSE IF fingerprint.device.isFakeMobile
    THEN [classification |-> "BAD", reason |-> <<"F","a","k","e"," ","m","o","b","i","l","e">>]
    ELSE IF ipReputation.isVpn \/ ipReputation.isTor
    THEN [classification |-> "BAD", reason |-> <<"V","P","N","/","T","o","r"," ","d","e","t","e","c","t","e","d">>]
    ELSE IF ipReputation.isDatacenter
    THEN [classification |-> "BAD", reason |-> <<"D","a","t","a","c","e","n","t","e","r"," ","I","P">>]
    ELSE IF ipReputation.isMobileCarrier
    THEN [classification |-> "GOOD", reason |-> <<"M","o","b","i","l","e"," ","c","a","r","r","i","e","r">>]
    ELSE LET deviceType == fingerprint.device.type IN
         IF deviceType = "desktop"
         THEN IF behavior.mouseMovements >= 40
              THEN [classification |-> "GOOD", reason |-> <<"G","o","o","d"," ","d","e","s","k","t","o","p"," ","b","e","h","a","v","i","o","r">>]
              ELSE [classification |-> "WARN", reason |-> <<"L","o","w"," ","m","o","u","s","e"," ","m","o","v","e","m","e","n","t","s">>]
         ELSE IF deviceType = "mobile" \/ deviceType = "tablet"
         THEN IF behavior.touchEvents >= 7
              THEN [classification |-> "GOOD", reason |-> <<"G","o","o","d"," ","m","o","b","i","l","e"," ","b","e","h","a","v","i","o","r">>]
              ELSE [classification |-> "WARN", reason |-> <<"L","o","w"," ","t","o","u","c","h"," ","e","v","e","n","t","s">>]
         ELSE [classification |-> "WARN", reason |-> <<"U","n","k","n","o","w","n"," ","p","a","t","t","e","r","n">>]
(***************************************************************************)
(* The requests, the provider's answers and the state machine.             *)
(***************************************************************************)
\* Two well-formed addresses would share nothing but the cache; one
\* well-formed and one malformed address exercise every path of the resolver.
IPS == { <<"1",".","2",".","3",".","4">>, <<"2","5","6",".","1",".","1",".","1">> }

DeviceTypes == {"desktop", "mobile", "tablet", "bot", "unknown"}

Browsers == { <<"C","h","r","o","m","e">>, <<"F","a","c","e","b","o","o","k">> }

\* The counters classify() reads: no interaction at all, and both counters
\* at the top of their range.
Behaviors ==
    {[mouseMovements |-> 0, touchEvents |-> 0],
     [mouseMovements |-> MaxMoves, touchEvents |-> MaxTouch]}

DeviceFlags == [isFakeMobile : BOOLEAN, isAutomated : BOOLEAN, isHeadless : BOOLEAN]

Device(type, flags, browser) ==
    [type |-> type, isFakeMobile |-> flags.isFakeMobile,
     isAutomated |-> flags.isAutomated, isHeadless |-> flags.isHeadless,
     browser |-> browser]

\* Every combination of the three device flags.  A device with no flag set
\* comes with every device type, browser and behavior; a flagged device with
\* the two opposite ends of those: a desktop with no interaction, and a
\* mobile in a high-risk browser with every counter at the top.
Signals ==
    {[device |-> Device(type, flags, browser), behavior |-> behavior] :
        type \in DeviceTypes, flags \in DeviceFlags, browser \in Browsers,
        behavior \in Behaviors}

RequestSignals ==
    {s \in Signals :
        \/ ~(s.device.isFakeMobile \/ s.device.isAutomated \/ s.device.isHeadless)
        \/ /\ s.device.type = "desktop" /\ s.device.browser = <<"C","h","r","o","m","e">>
           /\ s.behavior.mouseMovements = 0
        \/ /\ s.device.type = "mobile" /\ s.device.browser = <<"F","a","c","e","b","o","o","k">>
           /\ s.behavior.mouseMovements = MaxMoves}

ClassifyInputs ==
    {[ip |-> ip, fingerprint |-> [device |-> s.device], behavior |-> s.behavior] :
        ip \in IPS, s \in RequestSignals}

Orgs == { <<"T","e","s","t"," ","I","S","P">>, <<"N","o","r","d","V","P","N">>, <<"T","o","r"," ","E","x","i","t"," ","N","o","d","e">>, <<"A","m","a","z","o","n",".","c","o","m">> }

Asns == { <<"A","S","5","5","8","3","6">>, <<>> }

IpApiBodies ==
    [org : Orgs, asn : Asns, country : {"India"}, country_code : {"IN"},
     region : {"Maharashtra"}, city : {"Mumbai"}]

\* What the provider does with one call: a parsed body, or one of the
\* failures fetchIpReputation turns into a throw.
Upstream ==
    [kind : {"ok"}, data : IpApiBodies]
    \cup [kind : {"timeout", "network", "http", "apiError", "badJson"}]

\* A tick is longer than the reputation TTL and than the 3 s lookup timeout.
TickMs == ipTtlMs + 1

Init ==
    /\ manualWhitelist = {}
    /\ manualBlacklist = {}
    /\ ipCache = NewCache(ipMaxSize, ipTtlMs)
    /\ now = 0
    /\ pc = "idle"
    /\ input = None
    /\ out = None
    /\ cache = NewCache(TestMaxSize, TestTtlMs)
    /\ call = None
    /\ request = None
    /\ response = None
    /\ fraudChecks = <<>>
    /\ ipLists = {}
    /\ batch = None
    /\ inFlight = <<>>
    /\ detector = None

\* POST /api/fraud-check hands a validated request to classify()
\* (part_002:122-130).
Request(inputs) ==
    /\ pc = "idle"
    /\ pc' = "called"
    /\ \E in \in inputs : input' = Some(in)
    /\ out' = None
    /\ UNCHANGED <<manualWhitelist, manualBlacklist, ipCache, now>>
    /\ UNCHANGED lruVars
    /\ UNCHANGED <<routeVars, batchVars, callVars, clientVars>>

\* The response has been sent: the request is over.
Respond ==
    /\ pc = "returned"
    /\ pc' = "idle"
    /\ input' = None
    /\ out' = None
    /\ UNCHANGED <<manualWhitelist, manualBlacklist, ipCache, now>>
    /\ UNCHANGED lruVars
    /\ UNCHANGED <<routeVars, batchVars, callVars, clientVars>>

\* classify() runs up to its return, or to the point where it awaits the
\* provider's answer.
Classify ==
    /\ pc = "called"
    /\ LET r == classify(Get(input), manualWhitelist, manualBlacklist,
                         ipCache, now)
       IN  /\ r.cache.hits + r.cache.misses <= MaxGets
           /\ ipCache' = r.cache
           /\ out' = r.locals
           /\ pc' = IF r.returned THEN "returned" ELSE "fetching"
    /\ UNCHANGED <<manualWhitelist, manualBlacklist, now, input>>
    /\ UNCHANGED lruVars
    /\ UNCHANGED <<routeVars, batchVars, callVars, clientVars>>

\* The provider answers `up` (or the 3 s timer aborts the call) and
\* classify() runs to its return.
FetchDone(answers) ==
    /\ pc = "fetching"
    /\ \E up \in answers :
          LET r == classifyResume(Get(input), ipCache, now, up)
          IN  /\ ipCache' = r.cache
              /\ out' = Some(r.locals)
    /\ pc' = "returned"
    /\ UNCHANGED <<manualWhitelist, manualBlacklist, now, input>>
    /\ UNCHANGED lruVars
    /\ UNCHANGED <<routeVars, batchVars, callVars, clientVars>>

AddToWhitelist ==
    /\ pc = "idle"
    /\ \E ip \in IPS :
          LET r == addToWhitelist(manualWhitelist, manualBlacklist, ip)
          IN  /\ manualWhitelist' = r.whitelist
              /\ manualBlacklist' = r.blacklist
    /\ UNCHANGED <<ipCache, now, pc, input, out>>
    /\ UNCHANGED lruVars
    /\ UNCHANGED <<routeVars, batchVars, callVars, clientVars>>

AddToBlacklist ==
    /\ pc = "idle"
    /\ \E ip \in IPS :
          LET r == addToBlacklist(manualWhitelist, manualBlacklist, ip)
          IN  /\ manualWhitelist' = r.whitelist
              /\ manualBlacklist' = r.blacklist
    /\ UNCHANGED <<ipCache, now, pc, input, out>>
    /\ UNCHANGED lruVars
    /\ UNCHANGED <<routeVars, batchVars, callVars, clientVars>>

\* Time passes.
Tick ==
    /\ pc = "idle"
    /\ now < MaxTicks * TickMs
    /\ now' = now + TickMs
    /\ UNCHANGED <<manualWhitelist, manualBlacklist, ipCache, pc, input, out>>
    /\ UNCHANGED lruVars
    /\ UNCHANGED <<routeVars, batchVars, callVars, clientVars>>

Next ==
    \/ Request(ClassifyInputs)
    \/ Classify
    \/ FetchDone(Upstream)
    \/ Respond
    \/ AddToWhitelist
    \/ AddToBlacklist
    \/ Tick

Spec == Init /\ [][Next]_vars

(***************************************************************************)
(* The behavior thresholds: requests of unflagged desktop, mobile and      *)
(* tablet devices with every pair of counter values, from an address whose *)
(* reputation is unremarkable or cannot be resolved.                       *)
(***************************************************************************)
ThresholdInputs ==
    {[ip |-> ip,
      fingerprint |-> [device |->
          [type |-> type, isFakeMobile |-> FALSE, isAutomated |-> FALSE,
           isHeadless |-> FALSE, browser |-> browser]],
      behavior |-> [mouseMovements |-> m, touchEvents |-> n]] :
        ip \in IPS, type \in {"desktop", "mobile", "tablet"},
        browser \in Browsers, m \in 0..MaxMoves, n \in 0..MaxTouch}

ResidentialUpstream ==
    {up \in Upstream : up.kind = "timeout"
                       \/ (up.kind = "ok" /\ up.data.org = <<"T","e","s","t"," ","I","S","P">>
                           /\ up.data.asn = <<>>)}

NextThresholds ==
    \/ Request(ThresholdInputs)
    \/ Classify
    \/ FetchDone(ResidentialUpstream)
    \/ Respond

SpecThresholds == Init /\ [][NextThresholds]_vars

(***************************************************************************)
(* An LRUCache instance used on its own: every public method, on keys that *)
(* include the empty string, while the clock advances.                     *)
(***************************************************************************)
CacheKeys == { <<>>, <<"a">>, <<"b">> }

CacheValues == {"v"}

\* the ttlMs argument of set: omitted, or zero
CacheTtls == {None, Some(0)}

\* a completed call: the method, its key and ttlMs arguments (None where it
\* has none) and what it returned
Called(op, key, ttlMs, value) ==
    Some([op |-> op, key |-> key, ttlMs |-> ttlMs, value |-> value])

CacheGet ==
    /\ cache.hits + cache.misses < MaxGets
    /\ \E key \in CacheKeys :
          LET r == LRUCache_get(cache, key, now)
          IN  /\ cache' = r.cache
              /\ call' = Called("get", Some(key), None, r.value)
    /\ UNCHANGED now
    /\ UNCHANGED engineVars
    /\ UNCHANGED <<routeVars, batchVars, callVars, clientVars>>

CacheSet ==
    /\ \E key \in CacheKeys, value \in CacheValues, ttlMs \in CacheTtls :
          /\ cache' = LRUCache_setTtl(cache, key, value, ttlMs, now)
          /\ call' = Called("set", Some(key), ttlMs, None)
    /\ UNCHANGED now
    /\ UNCHANGED engineVars
    /\ UNCHANGED <<routeVars, batchVars, callVars, clientVars>>

CacheHas ==
    /\ \E key \in CacheKeys :
          LET r == LRUCache_has(cache, key, now)
          IN  /\ cache' = r.cache
              /\ call' = Called("has", Some(key), None, r.value)
    /\ UNCHANGED now
    /\ UNCHANGED engineVars
    /\ UNCHANGED <<routeVars, batchVars, callVars, clientVars>>

CacheDelete ==
    /\ \E key \in CacheKeys :
          LET r == LRUCache_delete(cache, key)
          IN  /\ cache' = r.cache
              /\ call' = Called("delete", Some(key), None, r.value)
    /\ UNCHANGED now
    /\ UNCHANGED engineVars
    /\ UNCHANGED <<routeVars, batchVars, callVars, clientVars>>

CacheCleanup ==
    /\ LET r == LRUCache_cleanup(cache, now)
       IN  /\ cache' = r.cache
           /\ call' = Called("cleanup", None, None, r.value)
    /\ UNCHANGED now
    /\ UNCHANGED engineVars
    /\ UNCHANGED <<routeVars, batchVars, callVars, clientVars>>

CacheClear ==
    /\ cache' = LRUCache_clear(cache)
    /\ call' = Called("clear", None, None, None)
    /\ UNCHANGED now
    /\ UNCHANGED engineVars
    /\ UNCHANGED <<routeVars, batchVars, callVars, clientVars>>

CacheGetStats ==
    /\ cache' = cache
    /\ call' = Called("getStats", None, None, getStats(cache))
    /\ UNCHANGED now
    /\ UNCHANGED engineVars
    /\ UNCHANGED <<routeVars, batchVars, callVars, clientVars>>

\* Time passes, one millisecond at a time.
CacheTick ==
    /\ now < MaxTime
    /\ now' = now + 1
    /\ UNCHANGED lruVars
    /\ UNCHANGED engineVars
    /\ UNCHANGED <<routeVars, batchVars, callVars, clientVars>>

NextCache ==
    \/ CacheGet
    \/ CacheSet
    \/ CacheHas
    \/ CacheDelete
    \/ CacheCleanup
    \/ CacheClear
    \/ CacheGetStats
    \/ CacheTick

SpecCache == Init /\ [][NextCache]_vars

(***************************************************************************)
(* The lookup step by step: fetchIpReputation (part_001:79-105) arms a     *)
(* timer that aborts fetch(), awaits the response, clears the timer, and   *)
(* then awaits the body.  pc = "fetching" is the first await (the timer is *)
(* armed), pc = "reading" the second (the timer has been cleared).         *)
(***************************************************************************)
Failure(kind) == [kind |-> kind]

\* classify() resumes with what its lookup came to.
LookupEnds(up) ==
    LET r == classifyResume(Get(input), ipCache, now, up)
    IN  /\ ipCache' = r.cache
        /\ out' = Some(r.locals)
        /\ pc' = "returned"
        /\ UNCHANGED <<manualWhitelist, manualBlacklist, now, input>>
        /\ UNCHANGED lruVars
        /\ UNCHANGED <<routeVars, batchVars, callVars, clientVars>>

\* fetch() rejects: the connection failed.
FetchRejects ==
    /\ pc = "fetching"
    /\ LookupEnds(Failure("network"))

\* The timer fires while fetch() is pending: controller.abort() makes it
\* reject.
Timeout ==
    /\ pc = "fetching"
    /\ LookupEnds(Failure("timeout"))

\* fetch() resolves with the response's status and headers; the timer is
\* cleared; a status outside 2xx is thrown.
ResponseHeaders ==
    /\ pc = "fetching"
    /\ \E ok \in BOOLEAN :
          IF ok
          THEN /\ pc' = "reading"
               /\ UNCHANGED <<manualWhitelist, manualBlacklist, ipCache, now,
                              input, out>>
               /\ UNCHANGED lruVars
               /\ UNCHANGED <<routeVars, batchVars, callVars, clientVars>>
          ELSE LookupEnds(Failure("http"))

\* response.json() settles: a body, a body with `error`, or no JSON.
BodyRead ==
    /\ pc = "reading"
    /\ \E up \in Upstream :
          /\ up.kind \in {"ok", "apiError", "badJson"}
          /\ up.kind = "ok" => up.data.asn = <<>>
          /\ LookupEnds(up)

\* Requests of unflagged devices without interaction, and of an automated
\* one.
LookupInputs ==
    {in \in ClassifyInputs :
        /\ in.behavior.mouseMovements = 0
        /\ in.fingerprint.device.browser = <<"C","h","r","o","m","e">>
        /\ in.fingerprint.device.type \in {"desktop", "bot"}
        /\ ~in.fingerprint.device.isHeadless
        /\ ~in.fingerprint.device.isFakeMobile}

NextLookup ==
    \/ Request(LookupInputs)
    \/ Classify
    \/ FetchRejects
    \/ Timeout
    \/ ResponseHeaders
    \/ BodyRead
    \/ Respond

\* The event loop runs the timer's callback while the timer is armed;
\* nothing obliges the provider to send anything.
SpecLookup ==
    /\ Init
    /\ [][NextLookup]_vars
    /\ WF_vars(Timeout)

(***************************************************************************)
(* POST /api/fraud-check (part_002).  A JSON value is its typeof tag and   *)
(* its content; an object's content is the record of its properties.       *)
(***************************************************************************)
Str(s) == [t |-> "string", v |-> s]
Num(n) == [t |-> "number", v |-> n]
Bool(b) == [t |-> "boolean", v |-> b]
Obj(props) == [t |-> "object", v |-> props]
Null == [t |-> "null", v |-> <<>>]
Undefined == [t |-> "undefined", v |-> <<>>]

\* the typeof operator: typeof null is 'object'
typeof(x) == IF x.t = "null" THEN "object" ELSE x.t

\* !!x
truthy(x) ==
    CASE x.t = "string" -> x.v # <<>>
      [] x.t = "number" -> x.v # 0
      [] x.t = "boolean" -> x.v
      [] x.t = "object" -> TRUE
      [] OTHER -> FALSE

\* x.name, for an x that is neither null nor undefined
Prop(x, name) ==
    IF x.t = "object" /\ name \in DOMAIN x.v THEN x.v[name] ELSE Undefined

\* the object without one property, and with one property set
Without(x, name) == Obj([f \in DOMAIN x.v \ {name} |-> x.v[f]])

With(x, name, value) ==
    Obj([f \in DOMAIN x.v \cup {name} |-> IF f = name THEN value ELSE x.v[f]])

validateFingerprint(data) ==
    /\ truthy(data) /\ typeof(data) = "object"
    /\ typeof(Prop(data, "userAgent")) = "string"
    /\ typeof(Prop(data, "language")) = "string"
    /\ typeof(Prop(data, "timezone")) = "string"
    /\ truthy(Prop(data, "device")) /\ typeof(Prop(data, "device")) = "object"
    /\ truthy(Prop(data, "screen")) /\ typeof(Prop(data, "screen")) = "object"
    /\ truthy(Prop(data, "hardware")) /\ typeof(Prop(data, "hardware")) = "object"
    /\ LET device == Prop(data, "device") IN
       /\ typeof(Prop(device, "type")) = "string"
       /\ typeof(Prop(device, "isFakeMobile")) = "boolean"
       /\ typeof(Prop(device, "isAutomated")) = "boolean"
       /\ typeof(Prop(device, "isHeadless")) = "boolean"

validateBehavior(data) ==
    /\ truthy(data) /\ typeof(data) = "object"
    /\ typeof(Prop(data, "mouseMovements")) = "number"
    /\ typeof(Prop(data, "touchEvents")) = "number"
    /\ typeof(Prop(data, "scrollEvents")) = "number"

\* String.prototype.trim
RECURSIVE trim(_)
trim(s) ==
    IF Len(s) = 0 THEN s
    ELSE IF s[1] = " " THEN trim(Tail(s))
    ELSE IF s[Len(s)] = " " THEN trim(SubSeq(s, 1, Len(s) - 1))
    ELSE s

\* Faulty variant: the CDN's header is preferred to the forwarding chain.
extractClientIp_cdnFirst(headers) ==
    LET xForwardedFor == headers.xForwardedFor
        ips == split(Get(xForwardedFor), ",")
        cfConnectingIp == headers.cfConnectingIp
        xRealIp == headers.xRealIp
    IN  IF IsSome(cfConnectingIp) /\ Get(cfConnectingIp) # <<>>
        THEN Get(cfConnectingIp)
        ELSE IF /\ IsSome(xForwardedFor) /\ Get(xForwardedFor) # <<>>
                /\ Len(ips) > 0 /\ trim(ips[1]) # <<>>
        THEN trim(ips[1])
        ELSE IF IsSome(xRealIp) /\ Get(xRealIp) # <<>>
        THEN Get(xRealIp)
        ELSE <<"1","2","7",".","0",".","0",".","1">>

\* headers.get() is None for a header the request does not carry
extractClientIp(headers) ==
    LET xForwardedFor == headers.xForwardedFor
        ips == split(Get(xForwardedFor), ",")
        cfConnectingIp == headers.cfConnectingIp
        xRealIp == headers.xRealIp
    IN  IF /\ IsSome(xForwardedFor) /\ Get(xForwardedFor) # <<>>
           /\ Len(ips) > 0 /\ trim(ips[1]) # <<>>
        THEN trim(ips[1])
        ELSE IF IsSome(cfConnectingIp) /\ Get(cfConnectingIp) # <<>>
        THEN Get(cfConnectingIp)
        ELSE IF IsSome(xRealIp) /\ Get(xRealIp) # <<>>
        THEN Get(xRealIp)
        ELSE <<"1","2","7",".","0",".","0",".","1">>

\* body.ip || extractClientIp(request)
clientIp(req) ==
    LET ip == Prop(req.body, "ip")
    IN  IF truthy(ip) THEN ip.v ELSE extractClientIp(req.headers)

\* `await request.json()` rejects on a body that is not JSON, and
\* `body.fingerprint` throws on the body null.
ParseThrows(req) == ~req.json \/ req.body.t \in {"null", "undefined"}

\* What classify() is called with.  Validation leaves device.browser
\* unexamined: undefined takes the `|| ''` branch; for a truthy value that
\* is no string see BrowserThrows.
ClassifyInputOf(req) ==
    LET fingerprint == Prop(req.body, "fingerprint")
        device == Prop(fingerprint, "device")
        behavior == Prop(req.body, "behavior")
        browser == Prop(device, "browser")
    IN  [ip |-> clientIp(req),
         fingerprint |-> [device |->
             [type |-> Prop(device, "type").v,
              isFakeMobile |-> Prop(device, "isFakeMobile").v,
              isAutomated |-> Prop(device, "isAutomated").v,
              isHeadless |-> Prop(device, "isHeadless").v,
              browser |-> IF typeof(browser) = "string" THEN browser.v
                          ELSE <<>>]],
         behavior |-> [mouseMovements |-> Prop(behavior, "mouseMovements").v,
                       touchEvents |-> Prop(behavior, "touchEvents").v]]

\* (device.browser || '').toLowerCase() at part_001:388 is a TypeError when
\* device.browser is truthy and not a string.
BrowserThrows(req) ==
    LET browser == Prop(Prop(Prop(req.body, "fingerprint"), "device"), "browser")
    IN  truthy(browser) /\ typeof(browser) # "string"

\* The responses of the route.
BadRequest(requestId, error) ==
    [status |-> 400, success |-> FALSE, result |-> None,
     error |-> Some(error), requestId |-> requestId]

VerdictResponse(requestId, result) ==
    [status |-> 200, success |-> TRUE, result |-> Some(result),
     error |-> None, requestId |-> requestId]

\* Faulty variant: an internal error is reported as one.
FailOpen_serverError(requestId, t) ==
    [status |-> 500, success |-> FALSE, result |-> None,
     error |-> Some("Internal server error"), requestId |-> requestId]

\* the catch block (part_002:179-197)
FailOpen(requestId, t) ==
    VerdictResponse(requestId,
        [classification |-> "WARN", score |-> 50,
         reason |-> <<"I","n","t","e","r","n","a","l"," ","e","r","r","o","r"," ","-"," ","d","e","f","a","u","l","t","i","n","g"," ","t","o"," ","W","A","R","N">>, timestamp |-> t])

\* the argument of insertFraudCheck, and how far the write has come:
\* "pending", "inserted" (insertOne resolved, updateDailyStats running),
\* "counted" or "uncounted" (updateDailyStats resolved or rejected), or
\* "rejected" (the insert failed; the route's .catch logs it)
FraudCheckParams(requestId, in, result) ==
    [requestId |-> requestId, ip |-> in.ip,
     classification |-> result.classification, score |-> result.score,
     reason |-> result.reason, state |-> "pending"]

\* crypto.randomUUID(): a fresh identifier, here the request's number
RequestId == IF IsSome(request) THEN Get(request).requestId + 1 ELSE 1

MaxRequests == 1

Headers(xForwardedFor, cfConnectingIp, xRealIp) ==
    [xForwardedFor |-> xForwardedFor, cfConnectingIp |-> cfConnectingIp,
     xRealIp |-> xRealIp]

NoHeaders == Headers(None, None, None)

BaseDevice ==
    Obj([type |-> Str("desktop"), isFakeMobile |-> Bool(FALSE),
         isAutomated |-> Bool(FALSE), isHeadless |-> Bool(FALSE),
         browser |-> Str(<<"C","h","r","o","m","e">>)])

BaseFingerprint ==
    Obj([userAgent |-> Str(<<"U","A">>), language |-> Str(<<"e","n">>),
         timezone |-> Str(<<"U","T","C">>), device |-> BaseDevice,
         screen |-> Obj([width |-> Num(1280)]),
         hardware |-> Obj([cores |-> Num(4)])])

BaseBehavior ==
    Obj([mouseMovements |-> Num(0), touchEvents |-> Num(0),
         scrollEvents |-> Num(0)])

Body(fingerprint, behavior) ==
    Obj([fingerprint |-> fingerprint, behavior |-> behavior])

\* Fingerprints and behaviors that lack a field validation asks for, or
\* carry it with another type.
BadFingerprints ==
    {Undefined, Null, Str(<<"x">>),
     Without(BaseFingerprint, "userAgent"),
     With(BaseFingerprint, "language", Num(1)),
     Without(BaseFingerprint, "timezone"),
     Without(BaseFingerprint, "device"),
     With(BaseFingerprint, "screen", Null),
     With(BaseFingerprint, "hardware", Str(<<"x">>)),
     With(BaseFingerprint, "device", Without(BaseDevice, "type")),
     With(BaseFingerprint, "device", With(BaseDevice, "isFakeMobile", Num(0))),
     With(BaseFingerprint, "device", Without(BaseDevice, "isAutomated")),
     With(BaseFingerprint, "device",
          With(BaseDevice, "isHeadless", Str(<<"f","a","l","s","e">>)))}

BadBehaviors ==
    {Undefined, Null,
     With(BaseBehavior, "mouseMovements", Str(<<"3">>)),
     Without(BaseBehavior, "touchEvents"),
     Without(BaseBehavior, "scrollEvents")}

\* Fingerprints that pass validation: the base one, an automated device, a
\* mobile in a high-risk browser, and devices whose browser is missing or
\* is a number.
GoodFingerprints ==
    {BaseFingerprint,
     With(BaseFingerprint, "device", With(BaseDevice, "isAutomated", Bool(TRUE))),
     With(BaseFingerprint, "device",
          With(With(BaseDevice, "type", Str("mobile")),
               "browser", Str(<<"F","a","c","e","b","o","o","k">>))),
     With(BaseFingerprint, "device", Without(BaseDevice, "browser")),
     With(BaseFingerprint, "device", With(BaseDevice, "browser", Num(7)))}

GoodBehaviors ==
    {BaseBehavior,
     Obj([mouseMovements |-> Num(MaxMoves), touchEvents |-> Num(MaxTouch),
          scrollEvents |-> Num(3)])}

\* body.ip: missing, empty, or an address
BodyIps == {Undefined, Str(<<>>), Str(<<"1",".","2",".","3",".","4">>)}

ForwardedFor == {None, Some(<<>>), Some(<<","," ","1",".","2",".","3",".","4">>),
                 Some(<<" ","2","5","6",".","1",".","1",".","1"," ",","," ","1",".","2",".","3",".","4">>)}

CfConnectingIp == {None, Some(<<>>), Some(<<"3","0","0",".","0",".","0",".","1">>)}

RealIp == {None, Some(<<"3","0","0",".","0",".","0",".","2">>)}

HttpRequest(json, body, headers) ==
    [json |-> json, body |-> body, headers |-> headers]

\* Bodies that are no JSON, JSON that is no object, bodies with a bad
\* fingerprint or behavior, and well-formed bodies; the well-formed base
\* body with every combination of body.ip and the three headers.
FraudCheckRequests ==
    {HttpRequest(FALSE, Undefined, NoHeaders),
     HttpRequest(TRUE, Null, NoHeaders),
     HttpRequest(TRUE, Num(5), NoHeaders)}
    \cup {HttpRequest(TRUE, Body(f, BaseBehavior), NoHeaders) :
             f \in BadFingerprints}
    \cup {HttpRequest(TRUE, Body(BaseFingerprint, b), NoHeaders) :
             b \in BadBehaviors}
    \cup {HttpRequest(TRUE, With(Body(f, b), "ip", Str(ip)), NoHeaders) :
             f \in GoodFingerprints, b \in GoodBehaviors, ip \in IPS}
    \cup {HttpRequest(TRUE,
                      With(Body(BaseFingerprint, BaseBehavior), "ip", ip),
                      Headers(x, c, r)) :
             ip \in BodyIps, x \in ForwardedFor, c \in CfConnectingIp,
             r \in RealIp}

\* POST up to `await classify(...)`: the body is parsed and validated and
\* the address chosen (part_002:90-130).
FraudCheckPost ==
    /\ pc = "idle"
    /\ RequestId <= MaxRequests
    /\ \E req \in FraudCheckRequests :
          LET requestId == RequestId
              answered(r) ==
                  /\ response' = Some(r)
                  /\ UNCHANGED <<pc, input, out>>
          IN  /\ request' = Some([http |-> req, requestId |-> requestId])
              /\ IF ParseThrows(req)
                 THEN answered(FailOpen(requestId, now))
                 ELSE IF ~validateFingerprint(Prop(req.body, "fingerprint"))
                 THEN answered(BadRequest(requestId, "Invalid fingerprint data"))
                 ELSE IF ~validateBehavior(Prop(req.body, "behavior"))
                 THEN answered(BadRequest(requestId, "Invalid behavior data"))
                 ELSE /\ response' = None
                      /\ input' = Some(ClassifyInputOf(req))
                      /\ out' = None
                      /\ pc' = "called"
    /\ UNCHANGED <<manualWhitelist, manualBlacklist, ipCache, now,
                   fraudChecks, ipLists>>
    /\ UNCHANGED <<lruVars, batchVars, callVars, clientVars>>

\* POST from the return of classify() on: insertFraudCheck is called and
\* not awaited, and the verdict is answered; a throw of classify() is
\* answered by the catch block (part_002:132-197).
FraudCheckRespond ==
    /\ pc = "returned"
    /\ IsSome(request) /\ response = None
    /\ LET req == Get(request)
           thrown == /\ BrowserThrows(req.http)
                     /\ IsSome(Get(out).behaviorResult)
       IN  IF thrown
           THEN /\ response' = Some(FailOpen(req.requestId, now))
                /\ UNCHANGED fraudChecks
           ELSE /\ response' =
                     Some(VerdictResponse(req.requestId, Get(out).result))
                /\ fraudChecks' =
                     Append(fraudChecks,
                            FraudCheckParams(req.requestId, Get(input),
                                             Get(out).result))
    /\ pc' = "idle"
    /\ input' = None
    /\ out' = None
    /\ UNCHANGED <<manualWhitelist, manualBlacklist, ipCache, now, request,
                   ipLists>>
    /\ UNCHANGED <<lruVars, batchVars, callVars, clientVars>>

\* the audit write moves on; nothing else does
AuditWrite(i, from, to) ==
    /\ fraudChecks[i].state = from
    /\ fraudChecks' = [fraudChecks EXCEPT ![i].state = to]
    /\ UNCHANGED <<engineVars, now, request, response, ipLists>>
    /\ UNCHANGED <<lruVars, batchVars, callVars, clientVars>>

\* collection.insertOne resolves and updateDailyStats is called, not awaited
\* (db.ts:202-205)
InsertResolves ==
    \E i \in 1..Len(fraudChecks) : AuditWrite(i, "pending", "inserted")

\* Faulty variant: the failed write is reported to the caller.
InsertRejects_propagates ==
    \E i \in 1..Len(fraudChecks) :
        /\ fraudChecks[i].state = "pending"
        /\ fraudChecks' = [fraudChecks EXCEPT ![i].state = "rejected"]
        /\ response' = Some(FailOpen_serverError(fraudChecks[i].requestId, now))
        /\ UNCHANGED <<engineVars, now, request, ipLists>>
        /\ UNCHANGED <<lruVars, batchVars, callVars, clientVars>>

\* getFraudChecksCollection or insertOne rejects; the route's .catch logs it
\* (db.ts:167, 202; part_002:171)
InsertRejects ==
    \E i \in 1..Len(fraudChecks) : AuditWrite(i, "pending", "rejected")

\* updateDailyStats settles; a rejection is logged (db.ts:205)
DailyStatsResolves ==
    \E i \in 1..Len(fraudChecks) : AuditWrite(i, "inserted", "counted")

DailyStatsRejects ==
    \E i \in 1..Len(fraudChecks) : AuditWrite(i, "inserted", "uncounted")

NextRoute ==
    \/ FraudCheckPost
    \/ Classify
    \/ FetchDone(ResidentialUpstream)
    \/ FraudCheckRespond
    \/ InsertResolves
    \/ InsertRejects
    \/ DailyStatsResolves
    \/ DailyStatsRejects

SpecRoute == Init /\ [][NextRoute]_vars

(***************************************************************************)
(* POST /api/ip-list (route.ts) and the ip_lists collection (db.ts): one   *)
(* document per address.                                                   *)
(***************************************************************************)
\* updateOne({ip}, {$set: {listType, ...}}, {upsert: true})
addToIpList(docs, ip, listType) ==
    {d \in docs : d.ip # ip} \cup {[ip |-> ip, listType |-> listType]}

\* deleteOne({ip})
removeFromIpList(docs, ip) == {d \in docs : d.ip # ip}

IpListResponse(status, success) == [status |-> status, success |-> success]

IpListBodies ==
    {Obj([ip |-> ip, listType |-> listType, action |-> action]) :
        ip \in {Undefined} \cup {Str(a) : a \in IPS},
        listType \in {Undefined, Str(<<"w","h","i","t","e","l","i","s","t">>), Str(<<"b","l","a","c","k","l","i","s","t">>),
                      Str(<<"g","r","a","y","l","i","s","t">>)},
        action \in {Undefined, Str(<<"r","e","m","o","v","e">>)}}

\* Bodies that are no JSON, JSON that is no object, and objects with every
\* combination of ip, listType and action.
IpListRequests ==
    {HttpRequest(FALSE, Undefined, NoHeaders),
     HttpRequest(TRUE, Null, NoHeaders),
     HttpRequest(TRUE, Num(5), NoHeaders),
     HttpRequest(TRUE, Obj([ip |-> Str(<<>>), listType |-> Str(<<"w","h","i","t","e","l","i","s","t">>),
                            action |-> Undefined]), NoHeaders)}
    \cup {HttpRequest(TRUE, body, NoHeaders) : body \in IpListBodies}

\* The whole handler; dbOk is whether the database call resolves.
\* `await request.json()` rejects on a body that is not JSON and the
\* destructuring throws on the body null: both land in the catch.
IpListPost ==
    /\ pc = "idle"
    /\ \E req \in IpListRequests, dbOk \in BOOLEAN :
          LET ip == Prop(req.body, "ip")
              listType == Prop(req.body, "listType")
              action == Prop(req.body, "action")
              rejected ==
                  /\ response' = Some(IpListResponse(400, FALSE))
                  /\ UNCHANGED <<ipLists, ipCache>>
              failed ==
                  /\ response' = Some(IpListResponse(500, FALSE))
                  /\ UNCHANGED <<ipLists, ipCache>>
              written(docs) ==
                  IF dbOk
                  THEN /\ ipLists' = docs
                       /\ ipCache' = LRUCache_delete(ipCache, ip.v).cache
                       /\ response' = Some(IpListResponse(200, TRUE))
                  ELSE failed
          IN  /\ request' = Some(req)
              /\ IF ParseThrows(req) THEN failed
                 ELSE IF ~truthy(ip) THEN rejected
                 ELSE IF action = Str(<<"r","e","m","o","v","e">>)
                 THEN written(removeFromIpList(ipLists, ip.v))
                 ELSE IF listType # Str(<<"w","h","i","t","e","l","i","s","t">>) /\ listType # Str(<<"b","l","a","c","k","l","i","s","t">>)
                 THEN rejected
                 ELSE written(addToIpList(ipLists, ip.v, listType.v))
    /\ UNCHANGED <<manualWhitelist, manualBlacklist, now, pc, input, out,
                   fraudChecks>>
    /\ UNCHANGED <<lruVars, batchVars, callVars, clientVars>>

NextAdmin ==
    \/ IpListPost
    \/ Request(LookupInputs)
    \/ Classify
    \/ FetchDone(ResidentialUpstream)
    \/ Respond

SpecAdmin == Init /\ [][NextAdmin]_vars

(***************************************************************************)
(* checkMultipleIps (part_001:202-222).  The calls of one batch are        *)
(* started together, each running to its first await; they settle in any   *)
(* order, each as fetchIpReputation does (timer armed while "fetching",    *)
(* cleared while "reading" the body); the batch is recorded when all have  *)
(* settled.                                                                *)
(***************************************************************************)
batchSize == 10

batchDelayMs == 100

\* ips.slice(i, i + batchSize), i counted from 1
slice(ips, i) ==
    SubSeq(ips, i, IF i + batchSize - 1 < Len(ips) THEN i + batchSize - 1
                   ELSE Len(ips))

\* batch.map(checkIpReputation): every call up to its return or its first
\* await, in order: [calls, cache]
RECURSIVE StartLookups(_, _, _)
StartLookups(ips, c, t) ==
    IF Len(ips) = 0 THEN [calls |-> <<>>, cache |-> c]
    ELSE LET r == checkIpReputation(ips[1], c, t)
             rest == StartLookups(Tail(ips), r.cache, t)
             first == IF r.resolved
                      THEN [ip |-> ips[1], state |-> "settled", rep |-> r.rep]
                      ELSE [ip |-> ips[1], state |-> "fetching", rep |-> None]
         IN  [calls |-> <<first>> \o rest.calls, cache |-> rest.cache]

\* the loop head at index i: the next batch is started, or the map returned
EnterBatch(ips, i, results, c, t) ==
    IF i > Len(ips)
    THEN [batch |-> [ips |-> ips, i |-> i, calls |-> <<>>,
                     results |-> results, phase |-> "returned"],
          cache |-> c]
    ELSE LET started == StartLookups(slice(ips, i), c, t)
         IN  [batch |-> [ips |-> ips, i |-> i, calls |-> started.calls,
                         results |-> results, phase |-> "lookups"],
              cache |-> started.cache]

MaxBatchRuns == 2

\* results.set(batch[j], batchResults[j]) for j in order: a later entry for
\* the same address replaces an earlier one
RecordBatch(results, calls) ==
    LET ips == {calls[j].ip : j \in 1..Len(calls)}
    IN  [ip \in DOMAIN results \cup ips |->
            IF ip \in ips
            THEN LET last == CHOOSE j \in 1..Len(calls) :
                               /\ calls[j].ip = ip
                               /\ \A k \in 1..Len(calls) :
                                     calls[k].ip = ip => k <= j
                 IN  Get(calls[last].rep)
            ELSE results[ip]]

\* No address; one malformed address; the same address twice; and eleven
\* addresses, of which the first batch holds two well-formed ones and the
\* second batch a third.
BatchInputs ==
    {<<>>,
     << <<"2","5","6",".","1",".","1",".","1">> >>,
     << <<"1",".","2",".","3",".","4">>, <<"1",".","2",".","3",".","4">> >>,
     << <<"1",".","2",".","3",".","4">>, <<"2","5","6",".","1",".","1",".","1">>, <<>>, <<"2","5","6",".","1",".","1",".","1">>, <<"2","5","6",".","1",".","1",".","1">>,
        <<"2","5","6",".","1",".","1",".","1">>, <<"2","5","6",".","1",".","1",".","1">>, <<"2","5","6",".","1",".","1",".","1">>, <<"2","5","6",".","1",".","1",".","1">>,
        <<"1",".","2",".","3",".","5">>, <<"1",".","2",".","3",".","6">> >>}

\* A call of checkMultipleIps, the first or one after an earlier call has
\* returned; run numbers the calls.
CheckMultipleIps ==
    /\ pc = "idle"
    /\ IF batch = None THEN TRUE
       ELSE Get(batch).phase = "returned" /\ Get(batch).run < MaxBatchRuns
    /\ \E ips \in BatchInputs :
          LET entered == EnterBatch(ips, 1, <<>>, ipCache, now)
              run == IF batch = None THEN 1 ELSE Get(batch).run + 1
          IN  /\ batch' = Some([run |-> run] @@ entered.batch)
              /\ ipCache' = entered.cache
    /\ UNCHANGED <<manualWhitelist, manualBlacklist, now, pc, input, out>>
    /\ UNCHANGED <<lruVars, routeVars, callVars, clientVars>>

\* call j of the batch is at `state`
BatchCallAt(j, state) ==
    /\ IsSome(batch) /\ Get(batch).phase = "lookups"
    /\ j \in 1..Len(Get(batch).calls)
    /\ Get(batch).calls[j].state = state

\* call j settles with what its lookup came to
BatchCallSettles(j, up) ==
    LET ip == Get(batch).calls[j].ip
        r == checkIpReputationResume(ip, ipCache, now, up)
    IN  /\ ipCache' = r.cache
        /\ batch' = Some([Get(batch) EXCEPT
                             !.calls[j].state = "settled",
                             !.calls[j].rep = Some(r.rep)])
        /\ UNCHANGED <<manualWhitelist, manualBlacklist, now, pc, input, out>>
        /\ UNCHANGED <<lruVars, routeVars, callVars, clientVars>>

BatchFetchRejects ==
    \E j \in 1..batchSize :
        BatchCallAt(j, "fetching") /\ BatchCallSettles(j, Failure("network"))

BatchTimeout ==
    \E j \in 1..batchSize :
        BatchCallAt(j, "fetching") /\ BatchCallSettles(j, Failure("timeout"))

BatchResponseHeaders ==
    \E j \in 1..batchSize, ok \in BOOLEAN :
        /\ BatchCallAt(j, "fetching")
        /\ IF ok
           THEN /\ batch' = Some([Get(batch) EXCEPT !.calls[j].state = "reading"])
                /\ UNCHANGED <<engineVars, now>>
                /\ UNCHANGED <<lruVars, routeVars, callVars, clientVars>>
           ELSE BatchCallSettles(j, Failure("http"))

BatchBodyRead ==
    \E j \in 1..batchSize, up \in ResidentialUpstream \cup {Failure("badJson")} :
        /\ up.kind # "timeout"
        /\ BatchCallAt(j, "reading")
        /\ BatchCallSettles(j, up)

\* Promise.all resolves: the batch is recorded; the loop waits for the
\* delay when addresses remain, else the map is returned
BatchRecorded ==
    /\ IsSome(batch) /\ Get(batch).phase = "lookups"
    /\ \A j \in 1..Len(Get(batch).calls) : Get(batch).calls[j].state = "settled"
    /\ batch' = Some([Get(batch) EXCEPT
                         !.results = RecordBatch(@, Get(batch).calls),
                         !.phase = IF Get(batch).i + batchSize <= Len(Get(batch).ips)
                                   THEN "delay" ELSE "returned"])
    /\ UNCHANGED <<engineVars, now>>
    /\ UNCHANGED <<lruVars, routeVars, callVars, clientVars>>

\* the delay is over: the next batch is started
BatchDelayOver ==
    /\ IsSome(batch) /\ Get(batch).phase = "delay"
    /\ now' = now + batchDelayMs
    /\ LET b == Get(batch)
           entered == EnterBatch(b.ips, b.i + batchSize, b.results, ipCache, now')
       IN  /\ batch' = Some([run |-> b.run] @@ entered.batch)
           /\ ipCache' = entered.cache
    /\ UNCHANGED <<manualWhitelist, manualBlacklist, pc, input, out>>
    /\ UNCHANGED <<lruVars, routeVars, callVars, clientVars>>

NextBatch ==
    \/ CheckMultipleIps
    \/ BatchFetchRejects
    \/ BatchTimeout
    \/ BatchResponseHeaders
    \/ BatchBodyRead
    \/ BatchRecorded
    \/ BatchDelayOver

\* The event loop runs timers that are armed and continuations that are
\* ready; nothing obliges the provider to send anything.
SpecBatch ==
    /\ Init
    /\ [][NextBatch]_vars
    /\ WF_vars(BatchTimeout)
    /\ WF_vars(BatchRecorded)
    /\ WF_vars(BatchDelayOver)

(***************************************************************************)
(* parseAsn (part_001:163-171) on its own: every string of letters, digits *)
(* and a blank up to a length.                                             *)
(***************************************************************************)
MaxAsnLen == 4

AsnChars == {"A", "S", "1", "2", " "}

AsnStrings == UNION {[1..n -> AsnChars] : n \in 0..MaxAsnLen}

\* parseAsn is called with a string and returns
ParseAsn ==
    /\ pc = "idle"
    /\ \E asnString \in AsnStrings :
          /\ input' = Some(asnString)
          /\ out' = Some(parseAsn(asnString))
    /\ pc' = "parsed"
    /\ UNCHANGED <<manualWhitelist, manualBlacklist, ipCache, now>>
    /\ UNCHANGED <<lruVars, routeVars, batchVars, callVars, clientVars>>

\* the caller has taken the value
ParseAsnDone ==
    /\ pc = "parsed"
    /\ pc' = "idle"
    /\ input' = None
    /\ out' = None
    /\ UNCHANGED <<manualWhitelist, manualBlacklist, ipCache, now>>
    /\ UNCHANGED <<lruVars, routeVars, batchVars, callVars, clientVars>>

NextParse ==
    \/ ParseAsn
    \/ ParseAsnDone

SpecParse == Init /\ [][NextParse]_vars

(***************************************************************************)
(* The resolver on its own: requests of one unflagged device from          *)
(* addresses of every shape, and a provider that may also answer with a    *)
(* body that names nothing but the address.                                *)
(***************************************************************************)
ResolverIps ==
    { <<"1",".","2",".","3",".","4">>, <<":",":","1">>, <<"2","5","6",".","1",".","1",".","1">>, <<"1",".","2",".","3">>, <<"1",".","2",".","3",".","4",".","5">>,
      <<"1",".","2",".","3",".","x">>, <<>>, <<"1",".","2",".","3",".","4"," ">>, <<"0","0","0","1",".","2",".","3",".","4">>, <<"1",".",".","3",".","4">>,
      <<"e","x","a","m","p","l","e",".","c","o","m">> }

ResolverInputs ==
    {[ip |-> ip,
      fingerprint |-> [device |->
          [type |-> "desktop", isFakeMobile |-> FALSE, isAutomated |-> FALSE,
           isHeadless |-> FALSE, browser |-> <<"C","h","r","o","m","e">>]],
      behavior |-> behavior] :
        ip \in ResolverIps, behavior \in Behaviors}

\* `data.org || ''`, `data.country || ''`, ... (part_001:131-144) of a body
\* without those fields
BareBody ==
    [org |-> <<>>, asn |-> <<>>, country |-> "", country_code |-> "",
     region |-> "", city |-> ""]

ResolverUpstream == Upstream \cup {[kind |-> "ok", data |-> BareBody]}

NextResolver ==
    \/ Request(ResolverInputs)
    \/ Classify
    \/ FetchDone(ResolverUpstream)
    \/ Respond
    \/ Tick

SpecResolver == Init /\ [][NextResolver]_vars

(***************************************************************************)
(* Whole fingerprints and behavior payloads (types.ts:36-130): the fields  *)
(* classify() reads, and two versions of everything else.                  *)
(***************************************************************************)
Environments ==
    {[userAgent |-> "Mozilla/5.0 (Windows NT 10.0)", language |-> "en-US",
      timezone |-> "Asia/Kolkata", canvasHash |-> "a1", webglHash |-> "b1",
      screen |-> [width |-> 1920, height |-> 1080],
      hardware |-> [cpuCores |-> 8]],
     [userAgent |-> "HeadlessChrome", language |-> "",
      timezone |-> "UTC", canvasHash |-> "", webglHash |-> "",
      screen |-> [width |-> 0, height |-> 0],
      hardware |-> [cpuCores |-> 1]]}

Activity ==
    {[mouseClicks |-> 0, touchTaps |-> 0, scrollEvents |-> 0, keyPresses |-> 0,
      activeTime |-> 0, totalTime |-> 0],
     [mouseClicks |-> 3, touchTaps |-> 2, scrollEvents |-> 5, keyPresses |-> 9,
      activeTime |-> 2500, totalTime |-> 3000]}

FullFingerprint(device, env) ==
    [device |-> device, screen |-> env.screen, hardware |-> env.hardware,
     userAgent |-> env.userAgent, language |-> env.language,
     timezone |-> env.timezone, canvasHash |-> env.canvasHash,
     webglHash |-> env.webglHash]

FullBehavior(m, n, act) ==
    [mouseMovements |-> m, mouseClicks |-> act.mouseClicks,
     touchEvents |-> n, touchTaps |-> act.touchTaps,
     scrollEvents |-> act.scrollEvents, keyPresses |-> act.keyPresses,
     activeTime |-> act.activeTime, totalTime |-> act.totalTime]

SignalDevices ==
    {Device(type, flags, browser) :
        type \in DeviceTypes, browser \in Browsers,
        flags \in {f \in DeviceFlags : ~f.isHeadless /\ ~f.isFakeMobile}}

SignalInputs ==
    {[ip |-> <<"1",".","2",".","3",".","4">>,
      fingerprint |-> FullFingerprint(device, env),
      behavior |-> FullBehavior(m, n, act)] :
        device \in SignalDevices, env \in Environments,
        m \in {0, MaxMoves}, n \in {0, MaxTouch}, act \in Activity}

SignalUpstream ==
    {up \in Upstream : up.kind = "timeout"
                       \/ (up.kind = "ok" /\ up.data.asn = <<>>
                           /\ up.data.org \in { <<"T","e","s","t"," ","I","S","P">>, <<"N","o","r","d","V","P","N">> })}

NextSignals ==
    \/ Request(SignalInputs)
    \/ Classify
    \/ FetchDone(SignalUpstream)
    \/ Respond
    \/ AddToWhitelist
    \/ AddToBlacklist

SpecSignals == Init /\ [][NextSignals]_vars

(***************************************************************************)
(* classify() next to classifySync(): devices of every type with each      *)
(* single flag, counters on both sides of the cut points, and a provider   *)
(* answering with every kind of record.                                    *)
(***************************************************************************)
SyncFlags ==
    {f \in DeviceFlags :
        Cardinality({k \in {"isFakeMobile", "isAutomated", "isHeadless"} : f[k]}) <= 1}

SyncInputs ==
    {[ip |-> <<"1",".","2",".","3",".","4">>,
      fingerprint |-> [device |-> Device(type, flags, browser)],
      behavior |-> [mouseMovements |-> m, touchEvents |-> n]] :
        type \in DeviceTypes, flags \in SyncFlags, browser \in Browsers,
        m \in {0, 39, 40, 41}, n \in {0, 6, 7, 8}}

SyncUpstream ==
    {up \in Upstream :
        \/ up.kind = "timeout"
        \/ up.kind = "ok" /\ up.data.asn = <<>>
        \/ up.kind = "ok" /\ up.data.org = <<"T","e","s","t"," ","I","S","P">>}

NextSync ==
    \/ Request(SyncInputs)
    \/ Classify
    \/ FetchDone(SyncUpstream)
    \/ Respond

SpecSync == Init /\ [][NextSync]_vars

(***************************************************************************)
(* classify() calls in flight together (part_001:298-419).  Each call runs *)
(* from its start to its first await that leaves the thread, the           *)
(* provider's answer, and from the answer to its return; the calls share   *)
(* the lists and the reputation cache, and their steps interleave in any   *)
(* order.                                                                  *)
(***************************************************************************)
MaxCalls == 2

CallIds == 1..MaxCalls

CallInputs ==
    {[ip |-> ip,
      fingerprint |-> [device |->
          [type |-> "desktop", isFakeMobile |-> FALSE, isAutomated |-> a,
           isHeadless |-> FALSE, browser |-> <<"C","h","r","o","m","e">>]],
      behavior |-> [mouseMovements |-> MaxMoves, touchEvents |-> 0]] :
        ip \in { <<"1",".","2",".","3",".","4">>, <<"5",".","6",".","7",".","8">> }, a \in BOOLEAN}

CallUpstream ==
    {up \in Upstream : up.kind = "timeout"
                       \/ (up.kind = "ok" /\ up.data.asn = <<>>
                           /\ up.data.org \in { <<"T","e","s","t"," ","I","S","P">>, <<"N","o","r","d","V","P","N">> })}

\* a call: where it is, its argument, the provider's answer to it and the
\* locals at its return
Call(at, in, up, locals) == [pc |-> at, input |-> in, up |-> up, out |-> locals]

\* The route handlers of the requests in flight call classify(): the calls
\* exist from now on, none has run yet.
CallsStart ==
    /\ inFlight = <<>>
    /\ ipCache.hits + ipCache.misses < MaxGets
    /\ \E ins \in [CallIds -> CallInputs] :
          inFlight' = [i \in CallIds |-> Call("called", ins[i], None, None)]
    /\ UNCHANGED <<manualWhitelist, manualBlacklist, ipCache, now, pc, input, out>>
    /\ UNCHANGED <<lruVars, routeVars, batchVars, clientVars>>

\* Faulty variant: a call does not run while another call's lookup of the
\* same address is in flight.
CallCanRun_perIpLock(i) ==
    /\ i \in DOMAIN inFlight
    /\ inFlight[i].pc = "called"
    /\ \A j \in DOMAIN inFlight :
          inFlight[j].pc = "fetching" => inFlight[j].input.ip # inFlight[i].input.ip

\* What call i needs to run: to have been made.  classify() and
\* checkIpReputation() take no lock and await nothing but the lists and the
\* provider.
CallCanRun(i) ==
    /\ i \in DOMAIN inFlight
    /\ inFlight[i].pc = "called"

\* What call i needs to go on after its await: its own provider's answer.
CallCanResume(i) ==
    /\ i \in DOMAIN inFlight
    /\ inFlight[i].pc = "fetching"

\* Call i runs up to its return, or to the point where it awaits the
\* provider's answer.
CallClassify(i) ==
    /\ CallCanRun(i)
    /\ LET r == classify(inFlight[i].input, manualWhitelist, manualBlacklist,
                         ipCache, now)
       IN  /\ ipCache' = r.cache
           /\ inFlight' = [inFlight EXCEPT ![i] =
                  Call(IF r.returned THEN "returned" ELSE "fetching",
                       @.input, None, r.locals)]
    /\ UNCHANGED <<manualWhitelist, manualBlacklist, now, pc, input, out>>
    /\ UNCHANGED <<lruVars, routeVars, batchVars, clientVars>>

\* The provider answers call i (or its timer aborts the lookup) and the
\* call runs to its return.
CallFetchDone(i) ==
    /\ CallCanResume(i)
    /\ \E up \in CallUpstream :
          LET r == classifyResume(inFlight[i].input, ipCache, now, up)
          IN  /\ ipCache' = r.cache
              /\ inFlight' = [inFlight EXCEPT ![i] =
                     Call("returned", @.input, Some(up), Some(r.locals))]
    /\ UNCHANGED <<manualWhitelist, manualBlacklist, now, pc, input, out>>
    /\ UNCHANGED <<lruVars, routeVars, batchVars, clientVars>>

\* Every response has been sent.
CallsEnd ==
    /\ inFlight # <<>>
    /\ \A i \in DOMAIN inFlight : inFlight[i].pc = "returned"
    /\ inFlight' = <<>>
    /\ UNCHANGED <<manualWhitelist, manualBlacklist, ipCache, now, pc, input, out>>
    /\ UNCHANGED <<lruVars, routeVars, batchVars, clientVars>>

\* Time passes between two rounds of calls.
CallsTick ==
    /\ inFlight = <<>>
    /\ now < MaxTicks * TickMs
    /\ now' = now + TickMs
    /\ UNCHANGED <<manualWhitelist, manualBlacklist, ipCache, pc, input, out>>
    /\ UNCHANGED <<lruVars, routeVars, batchVars, callVars, clientVars>>

NextCalls ==
    \/ CallsStart
    \/ \E i \in CallIds : CallClassify(i)
    \/ \E i \in CallIds : CallFetchDone(i)
    \/ CallsEnd
    \/ CallsTick

SpecCalls == Init /\ [][NextCalls]_vars

(***************************************************************************)
(* FraudDetector (fraud-detector.ts:360-604), the browser side.  analyze() *)
(* is followed from await to await; the stages passed to setStage, the     *)
(* results passed to onComplete and the errors passed to onError are       *)
(* logged per run.  onProgress and onError return normally; onComplete may *)
(* be a callback that throws.  Runs on one detector follow one another.    *)
(***************************************************************************)
MaxRuns == 2

ClientResult(classification, score) ==
    [classification |-> classification, score |-> score]

\* data.result of the server's answers
ServerResults ==
    {ClientResult("GOOD", 82), ClientResult("WARN", 76), ClientResult("BAD", 5)}

\* what response.json() settles with: a body with a result, a body without
\* success, or a rejection
ClientBodies ==
    {[kind |-> "result", result |-> r] : r \in ServerResults}
    \cup {[kind |-> "failure", result |-> ClientResult("WARN", 50)],
          [kind |-> "badJson", result |-> ClientResult("WARN", 50)]}

\* new FraudDetector(options)
NewDetector(collectBehavior, throws) ==
    [stage |-> "init", at |-> "idle", collectBehavior |-> collectBehavior,
     onCompleteThrows |-> throws, runs |-> 0, stageBefore |-> "init",
     progress |-> <<>>, results |-> <<>>, errors |-> 0, requests |-> 0,
     collected |-> 0, fingerprint |-> None, promise |-> "none"]

\* setStage (467-473)
setStage(d, stage) ==
    [d EXCEPT !.stage = stage, !.progress = Append(@, stage)]

\* the catch block of analyze() (438-451); reject and resolve of a promise
\* that has settled do nothing
Catch(d) ==
    [setStage(d, "error") EXCEPT
        !.errors = @ + 1,
        !.promise = IF @ = "pending" THEN "rejected" ELSE @,
        !.results = Append(@, ClientResult("WARN", 50)),
        !.at = "idle"]

\* setStage('complete'); onComplete(result); return -- inside the try block
\* (402-404, 415-417, 435-436): a callback that throws lands in the catch
Complete(d, result) ==
    LET done == [setStage(d, "complete") EXCEPT
                    !.results = Append(@, result),
                    !.promise = IF @ = "pending" THEN "resolved" ELSE @,
                    !.at = "idle"]
    IN  IF d.onCompleteThrows THEN Catch(done) ELSE done

\* Stage 3 up to `await fetch(...)` (430-431, 557-572)
Send(d) ==
    [setStage(d, "sending_request") EXCEPT !.requests = @ + 1, !.at = "sending"]

\* Faulty variant: the request is sent before the instant signals are looked at.
AfterFingerprint_sendsFirst(d, flags) ==
    LET got == [Send(d) EXCEPT !.fingerprint = Some(flags)] IN
    IF flags.isAutomated \/ flags.isHeadless \/ flags.isFakeMobile
    THEN Complete(got, ClientResult("BAD", 0))
    ELSE got

\* analyze() from the fingerprint to its next await or its return (391-431)
AfterFingerprint(d, flags) ==
    LET got == [d EXCEPT !.fingerprint = Some(flags)] IN
    IF flags.isAutomated \/ flags.isHeadless
    THEN Complete(got, ClientResult("BAD", 0))
    ELSE IF flags.isFakeMobile
    THEN Complete(got, ClientResult("BAD", 0))
    ELSE IF got.collectBehavior
    THEN [setStage(got, "collecting_behavior") EXCEPT
             !.collected = @ + 1, !.at = "collecting"]
    ELSE Send(got)

\* analyze() up to `await this.collectFingerprint()` (385-391)
StartRun(d) ==
    [setStage([d EXCEPT !.stageBefore = d.stage, !.progress = <<>>], "fingerprinting")
        EXCEPT !.runs = @ + 1, !.results = <<>>, !.errors = 0, !.requests = 0,
               !.collected = 0, !.fingerprint = None, !.at = "fingerprinting"]

ClientFrame ==
    /\ UNCHANGED <<manualWhitelist, manualBlacklist, ipCache, now, pc, input, out>>
    /\ UNCHANGED <<lruVars, routeVars, batchVars, callVars>>

At(position) == IsSome(detector) /\ Get(detector).at = position

Construct ==
    /\ detector = None
    /\ \E collectBehavior \in BOOLEAN, throws \in BOOLEAN :
          detector' = Some(NewDetector(collectBehavior, throws))
    /\ ClientFrame

Analyze ==
    /\ At("idle")
    /\ Get(detector).runs < MaxRuns
    /\ detector' = Some(StartRun([Get(detector) EXCEPT !.promise = "none"]))
    /\ ClientFrame

\* analyzeNow (458-465): the callbacks and the option are replaced for good
AnalyzeNow ==
    /\ At("idle")
    /\ Get(detector).runs < MaxRuns
    /\ detector' = Some(StartRun([Get(detector) EXCEPT
                                     !.onCompleteThrows = FALSE,
                                     !.collectBehavior = FALSE,
                                     !.promise = "pending"]))
    /\ ClientFrame

\* collectFingerprint() resolves
FingerprintCollected ==
    /\ At("fingerprinting")
    /\ \E flags \in DeviceFlags :
          detector' = Some(AfterFingerprint(Get(detector), flags))
    /\ ClientFrame

\* collectFingerprint() rejects (navigator.plugins missing, ...)
FingerprintFails ==
    /\ At("fingerprinting")
    /\ detector' = Some(Catch(Get(detector)))
    /\ ClientFrame

\* the behaviorDuration timer fires (524-530)
BehaviorCollected ==
    /\ At("collecting")
    /\ detector' = Some(Send(Get(detector)))
    /\ ClientFrame

\* the tracker cannot be started: collectBehavior() rejects
BehaviorFails ==
    /\ At("collecting")
    /\ detector' = Some(Catch(Get(detector)))
    /\ ClientFrame

\* the options.timeout timer fires while fetch() is pending (558)
ClientTimeout ==
    /\ At("sending")
    /\ detector' = Some(Catch(Get(detector)))
    /\ ClientFrame

\* fetch() rejects
ClientFetchRejects ==
    /\ At("sending")
    /\ detector' = Some(Catch(Get(detector)))
    /\ ClientFrame

\* fetch() resolves with status and headers; the timer is cleared (574); a
\* status outside 2xx is thrown
ClientResponseHeaders ==
    /\ At("sending")
    /\ \E ok \in BOOLEAN :
          detector' = Some(IF ok THEN [Get(detector) EXCEPT !.at = "reading"]
                           ELSE Catch(Get(detector)))
    /\ ClientFrame

\* response.json() settles (580-586)
ClientBodyRead ==
    /\ At("reading")
    /\ \E body \in ClientBodies :
          detector' = Some(IF body.kind = "result"
                           THEN Complete(Get(detector), body.result)
                           ELSE Catch(Get(detector)))
    /\ ClientFrame

NextClient ==
    \/ Construct
    \/ Analyze
    \/ AnalyzeNow
    \/ FingerprintCollected
    \/ FingerprintFails
    \/ BehaviorCollected
    \/ BehaviorFails
    \/ ClientTimeout
    \/ ClientFetchRejects
    \/ ClientResponseHeaders
    \/ ClientBodyRead

\* collectFingerprint() settles and the two timers fire while they are
\* armed; nothing obliges the server to send anything.
SpecClient ==
    /\ Init
    /\ [][NextClient]_vars
    /\ WF_vars(FingerprintCollected)
    /\ WF_vars(BehaviorCollected)
    /\ WF_vars(ClientTimeout)

(***************************************************************************)
(* Properties.                                                             *)
(***************************************************************************)
HasReturned == pc = "returned"

In == Get(input)

Dev == Get(input).fingerprint.device

Beh == Get(input).behavior

Out == Get(out)

Res == Get(out).result

Unlisted(ip) == ip \notin manualBlacklist /\ ip \notin manualWhitelist

NoDeviceFlag(d) == ~d.isAutomated /\ ~d.isHeadless /\ ~d.isFakeMobile

\* classify() reached the behavior rule: the analyzer was run
ReachedBehaviorRule == IsSome(Out.behaviorResult)

NoInteraction == [mouseMovements |-> 0, touchEvents |-> 0]

FullInteraction == [mouseMovements |-> MaxMoves, touchEvents |-> MaxTouch]

\* the cache holds a record for ip that satisfies P
Cached(ip, P(_)) ==
    \E i \in 1..Len(ipCache.entries) :
        ipCache.entries[i].key = ip /\ P(ipCache.entries[i].value)

IsCarrierRecord(rep) == rep.isMobileCarrier

Verdict(classification, score, flags) ==
    /\ Res.classification = classification
    /\ Res.score = score
    /\ Res.details.flags = flags

\* C1: for an IP on neither manual list, the result is the verdict and score
\* of the first rule that matches, in the order automated (BAD, 0), headless
\* (BAD, 0), fake mobile (BAD, 0), VPN (BAD, 5), Tor (BAD, 0), datacenter
\* (BAD, 10), carrier (GOOD, 95), behavior; the flag names the rule that
\* decided.
C1_PriorityCascade ==
    (HasReturned /\ Unlisted(In.ip)) =>
        IF Dev.isAutomated THEN Verdict("BAD", 0, <<"webdriver_detected">>)
        ELSE IF Dev.isHeadless THEN Verdict("BAD", 0, <<"headless_browser">>)
        ELSE IF Dev.isFakeMobile THEN Verdict("BAD", 0, <<"fake_mobile">>)
        ELSE /\ IsSome(Out.ipReputation)
             /\ LET rep == Get(Out.ipReputation) IN
                IF rep.isVpn THEN Verdict("BAD", 5, <<"vpn_detected">>)
                ELSE IF rep.isTor THEN Verdict("BAD", 0, <<"tor_detected">>)
                ELSE IF rep.isDatacenter THEN Verdict("BAD", 10, <<"datacenter_ip">>)
                ELSE IF rep.isMobileCarrier
                     THEN Verdict("GOOD", 95, <<"mobile_carrier">>)
                ELSE /\ ReachedBehaviorRule
                     /\ Res.details.deviceType = Some(Dev.type)

\* an automated device with perfect behavior, from an address the cache knows
\* as a carrier's, was classified BAD
C1_Witness ==
    /\ HasReturned /\ Unlisted(In.ip)
    /\ Dev.isAutomated /\ Beh = FullInteraction
    /\ Cached(In.ip, IsCarrierRecord)
    /\ Res.classification = "BAD"

\* C2: a request whose IP is on the deny list is classified BAD with score 0.
C2_DenyListIsBad ==
    (HasReturned /\ In.ip \in manualBlacklist) =>
        (Res.classification = "BAD" /\ Res.score = 0)

\* a denied carrier address, unflagged device, perfect behavior
C2_Witness ==
    /\ HasReturned /\ In.ip \in manualBlacklist
    /\ NoDeviceFlag(Dev) /\ Beh = FullInteraction
    /\ Cached(In.ip, IsCarrierRecord)
    /\ Res.classification = "BAD"

\* C3: a request whose IP is on the allow list and not on the deny list is
\* classified GOOD with score 100.
C3_AllowListIsGood ==
    (HasReturned /\ In.ip \in manualWhitelist /\ In.ip \notin manualBlacklist) =>
        (Res.classification = "GOOD" /\ Res.score = 100)

\* an allowed address, with every device flag set and no interaction
C3_Witness ==
    /\ HasReturned /\ In.ip \in manualWhitelist
    /\ Dev.isAutomated /\ Dev.isHeadless /\ Dev.isFakeMobile
    /\ Beh = NoInteraction
    /\ Res.classification = "GOOD"

AutomationVerdict ==
    /\ Res.classification = "BAD"
    /\ Res.score = 0
    /\ includes(Res.reason, <<"A","u","t","o","m","a","t","i","o","n">>)

\* C4 as stated: an automated device is classified BAD with score 0 and a
\* reason containing "Automation", whatever the IP's list membership.
C4_AutomationAlways == (HasReturned /\ Dev.isAutomated) => AutomationVerdict

\* C4 amended: an automated device whose IP is on neither manual list is
\* classified BAD with score 0 and a reason containing "Automation".
C4_AutomationUnlisted ==
    (HasReturned /\ Dev.isAutomated /\ Unlisted(In.ip)) => AutomationVerdict

\* an automated device alone (no other flag), IP on neither list
C4_Witness ==
    /\ HasReturned /\ Unlisted(In.ip)
    /\ Dev.isAutomated /\ ~Dev.isHeadless /\ ~Dev.isFakeMobile
    /\ includes(Res.reason, <<"A","u","t","o","m","a","t","i","o","n">>)

\* the carrier rule decides: nothing before it matches
CarrierDecides ==
    /\ HasReturned /\ Unlisted(In.ip) /\ NoDeviceFlag(Dev)
    /\ IsSome(Out.ipReputation)
    /\ LET rep == Get(Out.ipReputation) IN
         rep.isMobileCarrier /\ ~rep.isVpn /\ ~rep.isTor /\ ~rep.isDatacenter

\* C5: when the carrier rule decides, the result is GOOD with score 95, the
\* single flag mobile_carrier and a reason built from the organization alone,
\* and the analyzer has not been run: nothing in it depends on the device
\* type or the behavior counters.
C5_CarrierBypass ==
    CarrierDecides =>
        /\ Verdict("GOOD", 95, <<"mobile_carrier">>)
        /\ Res.reason = <<"M","o","b","i","l","e"," ","c","a","r","r","i","e","r",":"," ">> \o Get(Out.ipReputation).org
        /\ Res.details.deviceType = None
        /\ ~ReachedBehaviorRule

\* a bot device type with no interaction on a carrier address is GOOD
C5_Witness ==
    /\ CarrierDecides
    /\ Dev.type = "bot" /\ Beh = NoInteraction
    /\ Res.classification = "GOOD"

\* C6: at the behavior rule the label is GOOD exactly when the count of the
\* device's kind reaches its threshold, and WARN otherwise: 40 pointer
\* movements for a desktop, 7 touch events for a mobile or a tablet.
C6_BehaviorThresholds ==
    (HasReturned /\ ReachedBehaviorRule) =>
        /\ Dev.type = "desktop" =>
              Res.classification =
                  IF Beh.mouseMovements >= 40 THEN "GOOD" ELSE "WARN"
        /\ Dev.type \in {"mobile", "tablet"} =>
              Res.classification =
                  IF Beh.touchEvents >= 7 THEN "GOOD" ELSE "WARN"

\* a desktop with 39 movements and plenty of touch events is WARN
C6_Witness ==
    /\ HasReturned /\ ReachedBehaviorRule
    /\ Dev.type = "desktop" /\ Beh.mouseMovements = 39 /\ Beh.touchEvents = MaxTouch
    /\ Res.classification = "WARN"

\* C7: a verdict of the behavior rule is GOOD or WARN, never BAD.
C7_BehaviorNeverBad ==
    (HasReturned /\ ReachedBehaviorRule) => Res.classification \in {"GOOD", "WARN"}

\* a bot device type with no interaction in a high-risk browser ends WARN
C7_Witness ==
    /\ HasReturned /\ ReachedBehaviorRule
    /\ Dev.type = "bot" /\ Dev.browser = <<"F","a","c","e","b","o","o","k">> /\ Beh = NoInteraction
    /\ Res.classification = "WARN"

\* C8 as stated: at the behavior rule classify's label is the analyzer's own
\* classification, for every device type.
C8_LabelIsAnalyzers ==
    (HasReturned /\ ReachedBehaviorRule) =>
        Res.classification = Get(Out.behaviorResult).classification

\* C8 amended: at the behavior rule classify's label is the analyzer's own
\* classification for desktop, mobile and tablet devices; for bot and
\* unknown, where the analyzer returns BAD with score 0, classify returns
\* WARN.
C8_LabelIsAnalyzersUnlessBot ==
    (HasReturned /\ ReachedBehaviorRule) =>
        LET own == Get(Out.behaviorResult) IN
        IF Dev.type \in {"bot", "unknown"}
        THEN own.classification = "BAD" /\ own.score = 0
             /\ Res.classification = "WARN"
        ELSE Res.classification = own.classification

\* a desktop with full interaction in a high-risk browser: the penalty leaves
\* the analyzer's GOOD in place
C8_Witness ==
    /\ HasReturned /\ ReachedBehaviorRule
    /\ Dev.type = "desktop" /\ Dev.browser = <<"F","a","c","e","b","o","o","k">> /\ Beh = FullInteraction
    /\ Get(Out.behaviorResult).classification = "GOOD"
    /\ Res.classification = "GOOD"

\* C9 as stated: when the provider's organization name contains "tor exit" or
\* "tor project" (IP on neither list, no device flag), the record has isTor
\* and the result is the Tor verdict.
C9_TorVerdict ==
    (/\ HasReturned /\ Unlisted(In.ip) /\ NoDeviceFlag(Dev)
     /\ IsSome(Out.ipReputation)
     /\ LET org == toLowerCase(Get(Out.ipReputation).org) IN
          includes(org, <<"t","o","r"," ","e","x","i","t">>) \/ includes(org, <<"t","o","r"," ","p","r","o","j","e","c","t">>))
    => /\ Get(Out.ipReputation).isTor
       /\ Verdict("BAD", 0, <<"tor_detected">>)
       /\ Res.reason = <<"T","o","r"," ","e","x","i","t"," ","n","o","d","e"," ","d","e","t","e","c","t","e","d">>

\* C10: every score is an integer in 0..100 and the labels occupy disjoint,
\* ordered score bands: BAD at most 10, WARN above 10 and at most 80, GOOD
\* above 80; so every GOOD result scores above every WARN result and every
\* WARN result above every BAD result.
C10_ScoreBands ==
    HasReturned =>
        /\ Res.score \in 0..100
        /\ Res.classification = "BAD" => Res.score <= 10
        /\ Res.classification = "WARN" => (Res.score > 10 /\ Res.score <= 80)
        /\ Res.classification = "GOOD" => Res.score > 80

\* the lowest GOOD: full interaction in a high-risk browser
C10_Witness ==
    /\ HasReturned /\ ReachedBehaviorRule
    /\ Res.classification = "GOOD" /\ Res.score = 81

(***************************************************************************)
(* Properties of the evaluation order and of the lookup.                   *)
(***************************************************************************)
Listed(ip) == ip \in manualBlacklist \/ ip \in manualWhitelist

\* the tag of the first device rule that matches
DeviceTag(d) ==
    IF d.isAutomated THEN "webdriver_detected"
    ELSE IF d.isHeadless THEN "headless_browser"
    ELSE "fake_mobile"

\* the tag of the first reputation rule that matches
ReputationTag(rep) ==
    IF rep.isVpn THEN "vpn_detected"
    ELSE IF rep.isTor THEN "tor_detected"
    ELSE IF rep.isDatacenter THEN "datacenter_ip"
    ELSE "mobile_carrier"

HasReputationSignal(rep) ==
    rep.isVpn \/ rep.isTor \/ rep.isDatacenter \/ rep.isMobileCarrier

\* neither the resolver nor the analyzer has been run
NothingEvaluatedAfterDevice ==
    /\ Out.ipReputation = None
    /\ Out.behaviorResult = None
    /\ Out.fetched = 0
    /\ Res.details.ipReputation = None
    /\ Res.details.deviceType = None

\* C11: the flags of a result are the tags pushed up to and including the
\* deciding rule: none for the list rules, the one tag of the deciding rule
\* for the device and reputation rules, the analyzer's flags followed by
\* high_risk_browser (if the browser is one) for the behavior rule; and no
\* later rule has been evaluated: a list or device verdict comes without a
\* reputation lookup, every verdict before the behavior rule without the
\* analyzer having run.
C11_FlagsFollowPath ==
    HasReturned =>
        IF Listed(In.ip)
        THEN Res.details.flags = <<>> /\ NothingEvaluatedAfterDevice
        ELSE IF ~NoDeviceFlag(Dev)
        THEN Res.details.flags = <<DeviceTag(Dev)>> /\ NothingEvaluatedAfterDevice
        ELSE /\ IsSome(Out.ipReputation)
             /\ IF HasReputationSignal(Get(Out.ipReputation))
                THEN /\ Res.details.flags = <<ReputationTag(Get(Out.ipReputation))>>
                     /\ Out.behaviorResult = None
                     /\ Res.details.deviceType = None
                ELSE /\ ReachedBehaviorRule
                     /\ Res.details.flags =
                          analyzeBehavior(Dev.type, Beh).flags
                          \o (IF some(HIGH_RISK_BROWSERS, toLowerCase(Dev.browser))
                              THEN <<"high_risk_browser">> ELSE <<>>)

\* the behavior rule decided for a high-risk browser: two flags, the
\* analyzer's first
C11_Witness ==
    /\ HasReturned /\ ReachedBehaviorRule
    /\ Dev.browser = <<"F","a","c","e","b","o","o","k">> /\ Dev.type = "mobile" /\ Beh = NoInteraction
    /\ Res.details.flags = <<"very_low_touch_events", "high_risk_browser">>

\* a verdict of the list rules or of the device rules
DecidedBeforeLookup(in) ==
    \/ in.ip \in manualBlacklist
    \/ in.ip \in manualWhitelist
    \/ ~NoDeviceFlag(in.fingerprint.device)

\* C12: one classification makes at most one call to the lookup provider;
\* a classification decided by the list or device rules makes none and
\* leaves the reputation cache (entries, their order, hit and miss counters)
\* as it was.
C12_OneLookupAtMost ==
    /\ [](HasReturned => Out.fetched <= 1)
    /\ [][(pc = "called" /\ DecidedBeforeLookup(Get(input)))
            => (/\ pc' = "returned"
                /\ Get(out').fetched = 0
                /\ ipCache' = ipCache)]_vars

\* a headless device from an address already cached: the verdict came
\* without a lookup and the cache has counted no further read
C12_Witness ==
    /\ HasReturned /\ Unlisted(In.ip)
    /\ Dev.isHeadless /\ ~Dev.isAutomated
    /\ Cached(In.ip, IsCarrierRecord)
    /\ ipCache.hits = 0 /\ ipCache.misses = 1
    /\ Out.fetched = 0

FailedLookups ==
    {Failure(kind) : kind \in {"timeout", "network", "http", "apiError", "badJson"}}

\* all five facets false, no ASN, empty organization and location
IsNeutral(rep) ==
    /\ ~rep.isVpn /\ ~rep.isDatacenter /\ ~rep.isMobileCarrier
    /\ ~rep.isProxy /\ ~rep.isTor
    /\ rep.asn = None /\ rep.org = <<>> /\ rep.isp = <<>>
    /\ rep.country = "" /\ rep.countryCode = "" /\ rep.region = ""
    /\ rep.city = "" /\ ~rep.cached

\* C13: checkIpReputation always returns a record.  For an address that is
\* not well formed, and for every failure of the lookup (timeout, transport
\* error, status outside 2xx, provider error body, unparsable body), the
\* record is the neutral one and nothing is cached; classify then goes on to
\* the behavior rule.
C13_LookupFailureIsNeutral ==
    /\ (pc = "called" /\ ~isValidIp(In.ip)) =>
          LET r == checkIpReputation(In.ip, ipCache, now)
          IN  r.resolved /\ IsNeutral(Get(r.rep)) /\ Get(r.rep).ip = In.ip
              /\ r.cache = ipCache
    /\ pc = "fetching" =>
          \A up \in FailedLookups :
              LET r == checkIpReputationResume(In.ip, ipCache, now, up)
                  c == classifyResume(In, ipCache, now, up)
              IN  /\ IsNeutral(r.rep) /\ r.rep.ip = In.ip
                  /\ r.cache = ipCache
                  /\ c.locals.ipReputation = Some(r.rep)
                  /\ IsSome(c.locals.behaviorResult)
    /\ (HasReturned /\ Unlisted(In.ip) /\ NoDeviceFlag(Dev)) =>
          IsSome(Out.ipReputation)

\* a lookup was made and failed: the neutral record, and the behavior rule
\* decided
C13_Witness ==
    /\ HasReturned /\ Out.fetched = 1
    /\ IsSome(Out.ipReputation) /\ IsNeutral(Get(Out.ipReputation))
    /\ ~MapHas(ipCache.entries, In.ip)
    /\ ReachedBehaviorRule

\* a lookup is pending: classify() awaits fetch() or the response's body
LookupPending == pc \in {"fetching", "reading"}

\* C14 as stated: every lookup that is pending comes to an end, whatever the
\* provider does, because the timer aborts it; so classify() returns.
C14_LookupReturns == LookupPending ~> (pc = "returned")

SuccessfulLookups == {up \in Upstream : up.kind = "ok"}

\* what the cache holds for ip
CachedEntry(c, ip) == MapGet(c.entries, ip)

\* the lookup for the request in progress succeeds with `up`: the record is
\* fresh, it is stored under the IP with the configured TTL, and a check of
\* the same IP at t2 is served from the cache
FreshIsStoredAndServed(up, t2) ==
    LET r == checkIpReputationResume(In.ip, ipCache, now, up)
        later == checkIpReputation(In.ip, r.cache, t2)
    IN  /\ ~r.rep.cached
        /\ MapHas(r.cache.entries, In.ip)
        /\ CachedEntry(r.cache, In.ip).value = r.rep
        /\ CachedEntry(r.cache, In.ip).expiresAt = now + ipTtlMs
        /\ later.resolved
        /\ Get(later.rep) = [r.rep EXCEPT !.cached = TRUE]

\* classify() is called for an IP whose entry is in the cache and has not
\* expired, and neither a list nor a device rule decides
LookupWillHit ==
    /\ pc = "called"
    /\ ~DecidedBeforeLookup(Get(input))
    /\ MapHas(ipCache.entries, Get(input).ip)
    /\ now <= CachedEntry(ipCache, Get(input).ip).expiresAt

\* C15: a successful lookup returns its record with cached = false and
\* stores it under the IP; every later check of that IP, up to and including
\* the entry's expiry instant, returns the stored record with cached = true
\* and calls the provider no more.
C15_CachedAfterLookup ==
    /\ [](pc = "fetching" =>
            \A up \in SuccessfulLookups :
                /\ FreshIsStoredAndServed(up, now)
                /\ FreshIsStoredAndServed(up, now + ipTtlMs))
    /\ [][LookupWillHit =>
            /\ pc' = "returned"
            /\ Get(out').fetched = 0
            /\ Get(out').ipReputation =
                 Some([CachedEntry(ipCache, Get(input).ip).value
                          EXCEPT !.cached = TRUE])
            /\ ipCache'.hits = ipCache.hits + 1]_vars

\* a request served from the cache: one miss (the first request's), one hit
C15_Witness ==
    /\ HasReturned /\ Out.fetched = 0
    /\ IsSome(Out.ipReputation) /\ Get(Out.ipReputation).cached
    /\ Get(Out.ipReputation).isDatacenter
    /\ ipCache.hits = 1 /\ ipCache.misses = 1

(***************************************************************************)
(* Properties of LRUCache.                                                 *)
(***************************************************************************)
LastCall == Get(call)

\* the last call was `op`
Did(op) == IsSome(call) /\ Get(call).op = op

Size(c) == Len(c.entries)

\* C16 as stated: after any set the number of stored entries is at most
\* maxSize, whatever the keys are, the empty string included.
C16_SizeBounded == Did("set") => Size(cache) <= cache.maxSize

\* this step is a call of `op`: every call records itself, and only the
\* clock's step leaves the record alone
Calls(op) == IsSome(call') /\ Get(call').op = op /\ now' = now

\* the entries of c whose key c2 no longer holds
Dropped(c, c2) ==
    {i \in 1..Len(c.entries) : ~MapHas(c2.entries, c.entries[i].key)}

\* entry i of c was touched (set, or read by a get that returned it) no
\* later than every other entry of c
LeastRecentlyTouched(c, i) ==
    /\ i = 1
    /\ \A j \in 1..Len(c.entries) :
          c.entries[i].lastAccessed <= c.entries[j].lastAccessed

TtlOf(c, ttlMs) == IF IsSome(ttlMs) THEN Get(ttlMs) ELSE c.defaultTtlMs

\* get and has find the entry of `key` at instant t
FoundAt(c, key, t) ==
    /\ LRUCache_get(c, key, t).value = Some(CachedEntry(c, key).value)
    /\ LRUCache_has(c, key, t).value

\* get and has find nothing under `key` at instant t, and remove the entry
GoneAt(c, key, t) ==
    /\ LRUCache_get(c, key, t).value = None
    /\ ~LRUCache_has(c, key, t).value
    /\ ~MapHas(LRUCache_get(c, key, t).cache.entries, key)
    /\ ~MapHas(LRUCache_has(c, key, t).cache.entries, key)

\* C18: set at instant s with TTL t (the argument, or the default when it is
\* omitted) stores the entry with expiresAt = s + t; as long as the entry is
\* stored, get returns its value and has reports it at every instant up to
\* and including expiresAt, and at every later instant get returns nothing,
\* has reports false and either call removes the entry.
C18_TtlWindow ==
    /\ [][Calls("set") =>
            /\ MapHas(cache'.entries, Get(Get(call').key))
            /\ CachedEntry(cache', Get(Get(call').key)).expiresAt
                 = now + TtlOf(cache, Get(call').ttlMs)]_vars
    /\ [](\A i \in 1..Size(cache) :
            LET e == cache.entries[i] IN
            IF now <= e.expiresAt
            THEN FoundAt(cache, e.key, now) /\ FoundAt(cache, e.key, e.expiresAt)
                 /\ GoneAt(cache, e.key, e.expiresAt + 1)
            ELSE GoneAt(cache, e.key, now))

\* has() has just reported an entry at the very instant it expires, one
\* default TTL after it was stored
C18_Witness ==
    /\ Did("has") /\ LastCall.value = TRUE
    /\ CachedEntry(cache, Get(LastCall.key)).expiresAt = now
    /\ CachedEntry(cache, Get(LastCall.key)).lastAccessed = now - TestTtlMs
    /\ now > 0

NoSharedKey(c) ==
    \A i, j \in 1..Len(c.entries) :
        c.entries[i].key = c.entries[j].key => i = j

\* C19 as stated: every stored entry has expiresAt later than the current
\* time, and no two entries share a key.
C19_StoredEntriesUnexpired ==
    /\ \A i \in 1..Size(cache) : cache.entries[i].expiresAt > now
    /\ NoSharedKey(cache)

\* C19 amended: no two entries share a key; every entry that get or has
\* reports has expiresAt at or after the current time, and so has every
\* entry left by cleanup().  (An expired entry stays stored until a call
\* removes it.)
C19_ReportedEntriesUnexpired ==
    /\ NoSharedKey(cache)
    /\ \A key \in CacheKeys :
          (IsSome(LRUCache_get(cache, key, now).value)
             \/ LRUCache_has(cache, key, now).value)
          => /\ MapHas(cache.entries, key)
             /\ CachedEntry(cache, key).expiresAt >= now
    /\ LET swept == LRUCache_cleanup(cache, now).cache
       IN  /\ NoSharedKey(swept)
           /\ \A i \in 1..Size(swept) : swept.entries[i].expiresAt >= now

\* an entry that expired is still stored, beside one that has not, after a
\* key was stored a second time
C19_Witness ==
    /\ Size(cache) = 2
    /\ cache.entries[1].expiresAt < now
    /\ cache.entries[2].expiresAt >= now
    /\ cache.entries[2].lastAccessed = now
    /\ Did("set") /\ LastCall.key = Some(cache.entries[2].key)

\* C20: has(key) answers as get(key) would at the same instant (true exactly
\* when get returns a value); a has call leaves the hit and miss counters
\* and the order of the entries as they are, and changes nothing but to
\* remove the queried entry when it has expired.
C20_HasIsPure ==
    /\ [](\A key \in CacheKeys :
            LRUCache_has(cache, key, now).value
              = IsSome(LRUCache_get(cache, key, now).value))
    /\ [][Calls("has") =>
            LET key == Get(Get(call').key) IN
            /\ cache'.hits = cache.hits
            /\ cache'.misses = cache.misses
            /\ cache'.maxSize = cache.maxSize
            /\ cache'.defaultTtlMs = cache.defaultTtlMs
            /\ cache'.entries =
                 IF MapHas(cache.entries, key)
                    /\ now > CachedEntry(cache, key).expiresAt
                 THEN MapDelete(cache.entries, key)
                 ELSE cache.entries
            /\ Get(call').value =
                 (MapHas(cache.entries, key)
                    /\ now <= CachedEntry(cache, key).expiresAt)]_vars

\* has() has just reported the oldest of two entries, which stays the oldest
C20_Witness ==
    /\ Did("has") /\ LastCall.value = TRUE
    /\ Size(cache) = 2
    /\ cache.entries[1].key = Get(LastCall.key)
    /\ cache.hits = 0 /\ cache.misses = 0

(***************************************************************************)
(* C21  cleanup() removes every entry whose expiry lies before the current *)
(* time and no other, returns how many it removed, and leaves the values,  *)
(* expiry times and relative order of the survivors, and the hit and miss  *)
(* counters, as they were.                                                 *)
(***************************************************************************)
Expired(c, t) == {i \in 1..Len(c.entries) : c.entries[i].expiresAt < t}

C21_CleanupSweepsExpired ==
    [][Calls("cleanup") =>
         /\ cache'.entries =
              SelectSeq(cache.entries, LAMBDA e : e.expiresAt >= now)
         /\ Get(call').value = Cardinality(Expired(cache, now))
         /\ cache'.hits = cache.hits
         /\ cache'.misses = cache.misses]_vars

\* a sweep that removed one entry and kept one that is at its expiry instant
C21_Witness ==
    /\ Did("cleanup")
    /\ LastCall.value = 1
    /\ Size(cache) = 1
    /\ cache.entries[1].expiresAt = now
    /\ cache.hits + cache.misses > 0

(***************************************************************************)
(* C22  getStats() reports the get calls that returned a value as hits,    *)
(* those that returned nothing as misses, the number of stored entries as  *)
(* size, and hits / (hits + misses) as hitRate, 0 before the first get.    *)
(* set, has, delete and cleanup change neither counter.                    *)
(***************************************************************************)
StatsAreCounts ==
    /\ Calls("get") /\ IsSome(Get(call').value)
         => cache'.hits = cache.hits + 1 /\ cache'.misses = cache.misses
    /\ Calls("get") /\ ~IsSome(Get(call').value)
         => cache'.hits = cache.hits /\ cache'.misses = cache.misses + 1
    /\ Calls("set") \/ Calls("has") \/ Calls("delete") \/ Calls("cleanup")
         => cache'.hits = cache.hits /\ cache'.misses = cache.misses
    /\ Calls("getStats") =>
         LET stats == Get(call').value IN
         /\ stats.hits = cache.hits
         /\ stats.misses = cache.misses
         /\ stats.size = Len(cache.entries)
         /\ stats.hitRate =
              IF cache.hits + cache.misses = 0
              THEN <<0, 1>>
              ELSE <<cache.hits, cache.hits + cache.misses>>
         /\ cache' = cache

C22_StatsCountGets ==
    /\ cache.hits = 0 /\ cache.misses = 0
    /\ [][StatsAreCounts]_vars

\* one hit and one miss reported, with an entry stored
C22_Witness ==
    /\ Did("getStats")
    /\ LastCall.value.hits = 1
    /\ LastCall.value.misses = 1
    /\ LastCall.value.size = 1
    /\ LastCall.value.hitRate = <<1, 2>>

(***************************************************************************)
(* C23  After any sequence of addToWhitelist and addToBlacklist calls no   *)
(* address is on both lists: an add puts its address on the list it names  *)
(* and takes it off the other one, and changes the membership of no other  *)
(* address.                                                                *)
(***************************************************************************)
OnlyChanges(ip, W, B, r) ==
    \A other \in IPS \ {ip} :
        /\ (other \in r.whitelist) = (other \in W)
        /\ (other \in r.blacklist) = (other \in B)

C23_ListsExclusive ==
    /\ manualWhitelist \cap manualBlacklist = {}
    /\ \A ip \in IPS :
          LET W == manualWhitelist
              B == manualBlacklist
              allowed == addToWhitelist(W, B, ip)
              denied == addToBlacklist(W, B, ip)
          IN  /\ ip \in allowed.whitelist /\ ip \notin allowed.blacklist
              /\ ip \in denied.blacklist /\ ip \notin denied.whitelist
              /\ OnlyChanges(ip, W, B, allowed)
              /\ OnlyChanges(ip, W, B, denied)

\* both addresses listed, one on each list
C23_Witness ==
    /\ manualWhitelist = { <<"2","5","6",".","1",".","1",".","1">> }
    /\ manualBlacklist = { <<"1",".","2",".","3",".","4">> }

(***************************************************************************)
(* POST /api/fraud-check                                                   *)
(***************************************************************************)
\* the latest request and the answer to it
Req == Get(request).http

Resp == Get(response)

Answered == IsSome(request) /\ IsSome(response)

\* the request passed both validators
Validated(req) ==
    /\ req.json /\ req.body.t = "object"
    /\ validateFingerprint(Prop(req.body, "fingerprint"))
    /\ validateBehavior(Prop(req.body, "behavior"))

\* the audit records submitted for the request numbered id
RecordsOf(id) == {i \in 1..Len(fraudChecks) : fraudChecks[i].requestId = id}

IsFailOpenVerdict(result) ==
    /\ result.classification = "WARN"
    /\ result.score = 50
    /\ result.reason = <<"I","n","t","e","r","n","a","l"," ","e","r","r","o","r"," ","-"," ","d","e","f","a","u","l","t","i","n","g"," ","t","o"," ","W","A","R","N">>

(***************************************************************************)
(* C25  A request whose fingerprint or behavior is malformed (a missing or *)
(* wrongly typed field, a missing object, or a body that is no JSON object *)
(* at all) is answered with success = false and a 4xx status, without      *)
(* classify being invoked, a lookup issued or an audit record submitted.   *)
(***************************************************************************)
C25_MalformedRejected ==
    (IsSome(request) /\ ~Validated(Req)) =>
        /\ Answered
        /\ ~Resp.success
        /\ Resp.status \in 400..499
        /\ pc = "idle" /\ input = None
        /\ RecordsOf(Get(request).requestId) = {}

(***************************************************************************)
(* C26  When a step of handling a validated request throws, the route      *)
(* answers 200 with success = true, WARN, score 50 and a generic reason;   *)
(* no answer has a 5xx status.                                             *)
(***************************************************************************)
\* classify() is about to throw: it reached the browser test with a browser
\* that has no toLowerCase
ClassifyThrows ==
    /\ pc = "returned" /\ IsSome(request) /\ response = None
    /\ BrowserThrows(Req)
    /\ IsSome(Get(out).behaviorResult)

C26_FailOpen ==
    [][/\ (ClassifyThrows /\ pc' = "idle") =>
             /\ IsSome(response')
             /\ Get(response').status = 200
             /\ Get(response').success
             /\ IsSome(Get(response').result)
             /\ IsFailOpenVerdict(Get(Get(response').result))
       /\ IsSome(response') => Get(response').status < 500]_vars

\* a validated request, answered by the catch block
C26_Witness ==
    /\ Answered
    /\ Validated(Req) /\ BrowserThrows(Req)
    /\ Resp.status = 200 /\ Resp.success
    /\ IsFailOpenVerdict(Get(Resp.result))

(***************************************************************************)
(* C27  Every request that passes validation and is answered with a        *)
(* verdict causes exactly one insertFraudCheck call, carrying the          *)
(* request's requestId, verdict and score.                                 *)
(***************************************************************************)
C27_OneAuditRecordPerVerdict ==
    (Answered /\ Validated(Req) /\ IsSome(Resp.result)) =>
        /\ Cardinality(RecordsOf(Resp.requestId)) = 1
        /\ \A i \in RecordsOf(Resp.requestId) :
              /\ fraudChecks[i].classification = Get(Resp.result).classification
              /\ fraudChecks[i].score = Get(Resp.result).score

(***************************************************************************)
(* C28  The audit write is fire-and-forget: the verdict is answered while  *)
(* the write is pending, and a write or daily-stats update that resolves,  *)
(* rejects or never settles changes neither the verdict nor the success    *)
(* and status of the answer.                                               *)
(***************************************************************************)
AuditMoves ==
    /\ Len(fraudChecks') = Len(fraudChecks)
    /\ \E i \in 1..Len(fraudChecks) :
          fraudChecks'[i].state # fraudChecks[i].state

AuditSubmitted == Len(fraudChecks') = Len(fraudChecks) + 1

C28_AuditNeverAltersVerdict ==
    /\ [](Answered =>
            \A i \in RecordsOf(Resp.requestId) :
                /\ Resp.success /\ Resp.status = 200
                /\ Get(Resp.result).classification = fraudChecks[i].classification
                /\ Get(Resp.result).score = fraudChecks[i].score)
    /\ [][/\ AuditMoves =>
                /\ IsSome(response') = IsSome(response)
                /\ IsSome(response) =>
                      /\ Get(response').status = Resp.status
                      /\ Get(response').success = Resp.success
                      /\ Get(response').requestId = Resp.requestId
                      /\ IsSome(Get(response').result) = IsSome(Resp.result)
                /\ UNCHANGED <<pc, input, out>>
          /\ AuditSubmitted =>
                /\ fraudChecks'[Len(fraudChecks')].state = "pending"
                /\ IsSome(response')
                /\ Get(response').status = 200 /\ Get(response').success
                /\ Get(Get(response').result) = Get(out).result]_vars

\* the verdict stands although its audit write was rejected
C28_Witness ==
    /\ Answered
    /\ Resp.success /\ Resp.status = 200
    /\ \E i \in RecordsOf(Resp.requestId) :
          /\ fraudChecks[i].state = "rejected"
          /\ fraudChecks[i].classification = Get(Resp.result).classification

(***************************************************************************)
(* C29  The address classified is the body's ip when present; else the     *)
(* first entry of x-forwarded-for when that header is present with a       *)
(* non-empty first entry; else cf-connecting-ip; else x-real-ip; else      *)
(* 127.0.0.1.  A lower-preference source is used only when every           *)
(* higher-preference source is absent.                                     *)
(***************************************************************************)
\* what precedes the first comma, without the blanks around it
FirstEntry(s) ==
    LET k == CHOOSE k \in 0..Len(s) :
                 /\ \A j \in 1..k : s[j] # ","
                 /\ k = Len(s) \/ s[k + 1] = ","
    IN  trim(SubSeq(s, 1, k))

Classifying == pc = "called" /\ IsSome(request)

BodyIp == Prop(Req.body, "ip")

\* the statement as worded: a source is present when the request carries it
C29_ClientIpPreference ==
    Classifying =>
        LET h == Req.headers
            forwarded == /\ IsSome(h.xForwardedFor)
                         /\ FirstEntry(Get(h.xForwardedFor)) # <<>>
        IN  /\ In.ip =
                 IF BodyIp.t # "undefined" THEN BodyIp.v
                 ELSE IF forwarded THEN FirstEntry(Get(h.xForwardedFor))
                 ELSE IF IsSome(h.cfConnectingIp) THEN Get(h.cfConnectingIp)
                 ELSE IF IsSome(h.xRealIp) THEN Get(h.xRealIp)
                 ELSE <<"1","2","7",".","0",".","0",".","1">>
            /\ (BodyIp.t = "undefined" /\ ~forwarded) =>
                   h.xForwardedFor = None

\* a source is present when the request carries it and it is not empty
NonEmpty(header) == IsSome(header) /\ Get(header) # <<>>

C29_ClientIpPreferenceNonEmpty ==
    Classifying =>
        LET h == Req.headers
            forwarded == /\ NonEmpty(h.xForwardedFor)
                         /\ FirstEntry(Get(h.xForwardedFor)) # <<>>
        IN  In.ip =
              IF BodyIp.t = "string" /\ BodyIp.v # <<>> THEN BodyIp.v
              ELSE IF forwarded THEN FirstEntry(Get(h.xForwardedFor))
              ELSE IF NonEmpty(h.cfConnectingIp) THEN Get(h.cfConnectingIp)
              ELSE IF NonEmpty(h.xRealIp) THEN Get(h.xRealIp)
              ELSE <<"1","2","7",".","0",".","0",".","1">>

\* an empty body ip, a forwarding chain with an empty first entry and an
\* empty CDN header: the real-IP header is used
C29_Witness ==
    /\ Classifying
    /\ BodyIp = Str(<<>>)
    /\ Req.headers.xForwardedFor = Some(<<","," ","1",".","2",".","3",".","4">>)
    /\ Req.headers.cfConnectingIp = Some(<<>>)
    /\ In.ip = <<"3","0","0",".","0",".","0",".","2">>

(***************************************************************************)
(* C24  An admin override takes effect immediately: once POST /api/ip-list *)
(* has answered success for adding an address to the blacklist (to the     *)
(* whitelist), every later classify call for it returns BAD with score 0   *)
(* (GOOD with score 100); after a successful remove the list rule no       *)
(* longer applies to it.                                                   *)
(***************************************************************************)
\* the list the ip_lists collection names for ip, None when it names none
AdminListOf(ip) ==
    IF \E d \in ipLists : d.ip = ip
    THEN Some((CHOOSE d \in ipLists : d.ip = ip).listType)
    ELSE None

C24_OverrideTakesEffect ==
    HasReturned =>
        LET listed == AdminListOf(In.ip) IN
        /\ listed = Some(<<"b","l","a","c","k","l","i","s","t">>) =>
              Res.classification = "BAD" /\ Res.score = 0
        /\ listed = Some(<<"w","h","i","t","e","l","i","s","t">>) =>
              Res.classification = "GOOD" /\ Res.score = 100
        /\ listed = None => Res.reason \notin {<<"I","P"," ","i","s"," ","b","l","a","c","k","l","i","s","t","e","d">>,
                                               <<"I","P"," ","i","s"," ","w","h","i","t","e","l","i","s","t","e","d">>}

(***************************************************************************)
(* C30  checkMultipleIps always completes, with a map that has an entry    *)
(* for every distinct input address: a failed, timed-out or invalid lookup *)
(* yields the neutral record for its address only, and stops neither the   *)
(* other lookups of its batch nor the later batches.                       *)
(***************************************************************************)
BatchRunning == IsSome(batch) /\ Get(batch).phase # "returned"

\* the map returned has an entry for exactly the input addresses
BatchReturned ==
    /\ IsSome(batch) /\ Get(batch).phase = "returned"
    /\ DOMAIN Get(batch).results =
          {Get(batch).ips[k] : k \in 1..Len(Get(batch).ips)}

C30_BatchCompletes == BatchRunning ~> BatchReturned

\* whenever the call does return: an entry for every input address, neutral
\* for the malformed ones, and an entry that is not neutral stands for a
\* lookup that succeeded
BatchMapComplete ==
    (IsSome(batch) /\ Get(batch).phase = "returned") =>
        /\ BatchReturned
        /\ \A ip \in DOMAIN Get(batch).results :
              /\ Get(batch).results[ip].ip = ip
              /\ ~isValidIp(ip) => IsNeutral(Get(batch).results[ip])

(***************************************************************************)
(* C32  parseAsn maps "AS<digits>" and bare "<digits>" to the value of the *)
(* digits, and the empty string and every string of another form           *)
(* (non-numeric, or digits mixed with other text) to null.                 *)
(***************************************************************************)
AllDigits(s) == Len(s) > 0 /\ \A i \in 1..Len(s) : IsDigit(s[i])

HasAsPrefix(s) == Len(s) > 2 /\ s[1] = "A" /\ s[2] = "S"

C32_ParseAsnForms ==
    pc = "parsed" =>
        LET s == Get(input) IN
        Get(out) = IF AllDigits(s) THEN Some(parseInt(s))
                   ELSE IF HasAsPrefix(s) /\ AllDigits(SubSeq(s, 3, Len(s)))
                   THEN Some(parseInt(SubSeq(s, 3, Len(s))))
                   ELSE None

\* four dot-separated decimal octets, each 0..255
WellFormedIpv4(ip) ==
    LET octets == split(ip, ".") IN
    /\ Len(octets) = 4
    /\ \A i \in 1..4 : AllDigits(octets[i]) /\ parseInt(octets[i]) <= 255

\* /^([0-9a-fA-F]{0,4}:){2,7}[0-9a-fA-F]{0,4}$/
AcceptedByIpv6Pattern(ip) ==
    LET groups == split(ip, ":") IN
    /\ Len(groups) \in 3..8
    /\ \A i \in 1..Len(groups) :
          Len(groups[i]) <= 4 /\ \A j \in 1..Len(groups[i]) : IsHex(groups[i][j])

Malformed(ip) == ~WellFormedIpv4(ip) /\ ~AcceptedByIpv6Pattern(ip)

\* classify() is at its call of checkIpReputation
AtLookup == pc = "called" /\ ~DecidedBeforeLookup(Get(input))

(***************************************************************************)
(* C35  checkIpReputation on a string that is neither a well-formed IPv4   *)
(* address nor accepted by the IPv6 pattern returns the neutral record     *)
(* without consulting the cache (no hit or miss counted, no recency        *)
(* change), without calling the provider and without storing anything.     *)
(***************************************************************************)
C35_MalformedTouchesNothing ==
    [][(AtLookup /\ Malformed(Get(input).ip)) =>
          /\ pc' = "returned"
          /\ ipCache' = ipCache
          /\ Get(out').fetched = 0
          /\ Get(out').ipReputation = Some(createUnknownResult(Get(input).ip))
          /\ IsNeutral(Get(Get(out').ipReputation))]_vars

\* a malformed address was resolved while the cache held a record
C35_Witness ==
    /\ HasReturned
    /\ Malformed(In.ip)
    /\ IsSome(Out.ipReputation) /\ IsNeutral(Get(Out.ipReputation))
    /\ Size(ipCache) > 0

FailingAnswers == {up \in ResolverUpstream : up.kind # "ok"}

\* rep has the content of the neutral record, whatever its cached mark is
NeutralContent(rep) == IsNeutral([rep EXCEPT !.cached = FALSE])

\* the lookup in progress fails with `up`: the neutral record is returned,
\* the cache holds no entry for the IP, and a check of the same IP at t2
\* goes to the provider again
FailureIsNotStored(up, t2) ==
    LET r == checkIpReputationResume(In.ip, ipCache, now, up)
        later == checkIpReputation(In.ip, r.cache, t2)
    IN  /\ IsNeutral(r.rep)
        /\ ~MapHas(r.cache.entries, In.ip)
        /\ ~later.resolved

\* the record classify() got from checkIpReputation came from the cache
ServedFromCache ==
    /\ HasReturned /\ IsSome(Out.ipReputation)
    /\ Get(Out.ipReputation).cached

ServedRecord(ip, up) == [Get(fetchIpReputation(ip, up)) EXCEPT !.cached = TRUE]

IpComponent(rep) ==
    IF rep.isVpn \/ rep.isTor THEN 0
    ELSE IF rep.isDatacenter THEN 10
    ELSE IF rep.isProxy THEN 20
    ELSE IF rep.isMobileCarrier THEN 95
    ELSE 80

DeviceComponent(d) == IF d.isFakeMobile \/ d.isAutomated THEN 0 ELSE 80

HighRiskBrowser(d) == some(HIGH_RISK_BROWSERS, toLowerCase(d.browser))

\* the analyzer's score, less 10 and not below 0 in a high-risk browser
BehaviorComponent ==
    LET s == Get(Out.behaviorResult).score IN
    IF ~HighRiskBrowser(Dev) THEN s
    ELSE IF s >= 10 THEN s - 10 ELSE 0

\* (6 * i + 3 * d + b) / 10, rounded to the nearest integer, halves upwards
Composite(i, d, b) == (6 * i + 3 * d + b + 5) \div 10

(***************************************************************************)
(* C34  For every input decided by the behavior rule the reported score is *)
(* round(0.6 * ipComponent + 0.3 * deviceComponent + 0.1 * b): b is the    *)
(* analyzer's score (100, 60, 40, 0 or 50), less 10 and floored at 0 when  *)
(* device.browser contains a high-risk keyword; ipComponent is 0 for VPN   *)
(* or Tor, 10 for a datacenter, 20 for a proxy, 95 for a carrier and 80    *)
(* otherwise; deviceComponent is 0 if isFakeMobile or isAutomated, else    *)
(* 80.                                                                     *)
(***************************************************************************)
C34_CompositeScore ==
    (HasReturned /\ Unlisted(In.ip) /\ NoDeviceFlag(Dev)
        /\ IsSome(Out.behaviorResult)) =>
        /\ Get(Out.behaviorResult).score \in {100, 60, 40, 0, 50}
        /\ Res.score = Composite(IpComponent(Get(Out.ipReputation)),
                                 DeviceComponent(Dev), BehaviorComponent)

\* a bot in a high-risk browser: the analyzer's 0 stays 0, the score is
\* 0.6 * 80 + 0.3 * 80
C34_Witness ==
    /\ HasReturned /\ IsSome(Out.behaviorResult)
    /\ Dev.type = "bot" /\ HighRiskBrowser(Dev)
    /\ Get(Out.behaviorResult).score = 0
    /\ Res.score = 72

\* the count the analyzer reads for a device of this type
RelevantCount(type, behavior) ==
    IF type = "desktop" THEN behavior.mouseMovements
    ELSE IF type \in {"mobile", "tablet"} THEN behavior.touchEvents
    ELSE 0

\* two inputs agree on everything that is scored
SameScoredSignals(a, b) ==
    /\ a.ip = b.ip
    /\ a.fingerprint.device.type = b.fingerprint.device.type
    /\ a.fingerprint.device.isAutomated = b.fingerprint.device.isAutomated
    /\ a.fingerprint.device.isHeadless = b.fingerprint.device.isHeadless
    /\ a.fingerprint.device.isFakeMobile = b.fingerprint.device.isFakeMobile
    /\ a.fingerprint.device.browser = b.fingerprint.device.browser
    /\ RelevantCount(a.fingerprint.device.type, a.behavior)
           = RelevantCount(b.fingerprint.device.type, b.behavior)

SameVerdict(r, s) ==
    /\ r.classification = s.classification
    /\ r.score = s.score
    /\ r.reason = s.reason
    /\ r.details.flags = s.details.flags

\* the verdict of classify(in) in the present state when the provider, if it
\* is called, answers `up`
VerdictOf(in, up) ==
    LET r == classify(in, manualWhitelist, manualBlacklist, ipCache, now)
    IN  IF r.returned THEN Get(r.locals).result
        ELSE classifyResume(in, r.cache, now, up).locals.result

(***************************************************************************)
(* C33  The verdict is a function of the scored signals only: two classify *)
(* calls in the same list, cache and provider state whose inputs agree on  *)
(* the IP, device.type, the three device flags, device.browser and the     *)
(* count relevant to the device type return the same classification,       *)
(* score, reason and flags, however they differ in userAgent, language,    *)
(* timezone, canvasHash, webglHash, screen, hardware or the other behavior *)
(* counters.                                                               *)
(***************************************************************************)
C33_VerdictFromScoredSignalsOnly ==
    pc = "called" =>
        \A other \in SignalInputs :
            (other # In /\ SameScoredSignals(In, other)) =>
                \A up \in SignalUpstream :
                    SameVerdict(VerdictOf(In, up), VerdictOf(other, up))

\* the verdict a desktop without mouse movements got is the one the same
\* desktop with other hashes, a headless user agent and touch events gets
C33_Witness ==
    /\ HasReturned /\ IsSome(Out.behaviorResult)
    /\ Dev.type = "desktop" /\ Beh.mouseMovements = 0 /\ Beh.touchEvents = 0
    /\ In.fingerprint.userAgent # "HeadlessChrome"
    /\ \E other \in SignalInputs :
          /\ SameScoredSignals(In, other)
          /\ other.fingerprint.userAgent = "HeadlessChrome"
          /\ other.behavior.touchEvents = MaxTouch
          /\ other.behavior.keyPresses # Beh.keyPresses
          /\ \A up \in SignalUpstream : up.kind = "timeout" =>
                SameVerdict(Res, VerdictOf(other, up))

\* records with every combination of the four facets the rules test
RecordsFor(ip) ==
    {[createUnknownResult(ip) EXCEPT !.isVpn = v, !.isTor = t,
                                     !.isDatacenter = d, !.isMobileCarrier = c] :
        v \in BOOLEAN, t \in BOOLEAN, d \in BOOLEAN, c \in BOOLEAN}

(***************************************************************************)
(* C37  classifySync, the function the unit tests exercise, agrees with    *)
(* classify: for every fingerprint, behavior payload and reputation        *)
(* record, with the IP on neither manual list and the resolver returning   *)
(* that record, both return the same classification label.                 *)
(***************************************************************************)
C37_SyncAgreesWithClassify ==
    (HasReturned /\ Unlisted(In.ip)) =>
        IF IsSome(Out.ipReputation)
        THEN classifySync(Get(Out.ipReputation), In.fingerprint, In.behavior)
                 .classification = Res.classification
        ELSE \A rep \in RecordsFor(In.ip) :
                 classifySync(rep, In.fingerprint, In.behavior).classification
                     = Res.classification

\* a desktop with exactly 40 mouse movements in a high-risk browser, from an
\* unremarkable address: GOOD from both
C37_Witness ==
    /\ HasReturned /\ IsSome(Out.behaviorResult)
    /\ Dev.type = "desktop" /\ Beh.mouseMovements = 40 /\ HighRiskBrowser(Dev)
    /\ Res.classification = "GOOD"
    /\ classifySync(Get(Out.ipReputation), In.fingerprint, In.behavior)
           .classification = "GOOD"

\* this step is the ip-list handler answering a request
IpListAnswers == pc = "idle" /\ pc' = "idle" /\ IsSome(request') /\ IsSome(response')

IpListIp(req) == Prop(req.body, "ip")

\* the body is an add whose listType names no list
BadAdd(req) ==
    /\ Prop(req.body, "action") # Str(<<"r","e","m","o","v","e">>)
    /\ Prop(req.body, "listType") \notin {Str(<<"w","h","i","t","e","l","i","s","t">>), Str(<<"b","l","a","c","k","l","i","s","t">>)}

\* the persisted list after the write the request asks for
ListWritten(req) ==
    IF Prop(req.body, "action") = Str(<<"r","e","m","o","v","e">>)
    THEN {d \in ipLists : d.ip # IpListIp(req).v}
    ELSE {d \in ipLists : d.ip # IpListIp(req).v}
         \cup {[ip |-> IpListIp(req).v, listType |-> Prop(req.body, "listType").v]}

\* every request answered success has written the list and removed the
\* cache entry of its IP, to the rest of the cache nothing was done
InvalidatesOnSuccess ==
    Get(response').success =>
        /\ ipLists' = ListWritten(Get(request'))
        /\ ~MapHas(ipCache'.entries, IpListIp(Get(request')).v)
        /\ ipCache'.entries = MapDelete(ipCache.entries, IpListIp(Get(request')).v)

Rejected400 ==
    /\ Get(response').status = 400 /\ ~Get(response').success
    /\ UNCHANGED <<ipLists, ipCache>>

\* the request carries no ip: its body is no JSON, or is null, or has no ip
\* property, or an empty one
NoIp(req) ==
    \/ ~req.json
    \/ req.body.t \in {"null", "undefined"}
    \/ ~truthy(IpListIp(req))

\* C38 as stated: POST /api/ip-list leaves state unchanged on rejection and
\* invalidates on success: a request with no ip, or with an add whose
\* listType is neither whitelist nor blacklist, is answered 400 without
\* modifying the persisted list or the reputation cache; every request
\* answered success has removed the cache entry of that IP after the list
\* write completed.
C38_RejectsWith400AndInvalidates ==
    [][IpListAnswers =>
          /\ (NoIp(Get(request')) \/ BadAdd(Get(request'))) => Rejected400
          /\ InvalidatesOnSuccess]_vars

\* request.json() gave a value that has properties
BodyParsed ==
    Get(request').json /\ Get(request').body.t \notin {"null", "undefined"}

(***************************************************************************)
(* C38  POST /api/ip-list leaves state unchanged on rejection and          *)
(* invalidates on success: a request whose body is JSON other than null    *)
(* and has no ip, or is an add whose listType is neither whitelist nor     *)
(* blacklist, is answered 400 without modifying the persisted list or the  *)
(* reputation cache; a request whose body is not JSON or is null is        *)
(* answered 500, without modifying them either; every request answered     *)
(* success has removed the cache entry of that IP after the list write     *)
(* completed.                                                              *)
(***************************************************************************)
C38_RejectsAndInvalidates ==
    [][IpListAnswers =>
          /\ (BodyParsed /\ (NoIp(Get(request')) \/ BadAdd(Get(request'))))
                => Rejected400
          /\ ~BodyParsed =>
                /\ Get(response').status = 500 /\ ~Get(response').success
                /\ UNCHANGED <<ipLists, ipCache>>
          /\ InvalidatesOnSuccess]_vars

\* a successful add for an address whose record the cache had served: the
\* list names it and the cache no longer holds it
C38_Witness ==
    /\ pc = "idle" /\ IsSome(response) /\ Get(response).success
    /\ IsSome(request)
    /\ Prop(Get(request).body, "listType") = Str(<<"b","l","a","c","k","l","i","s","t">>)
    /\ ipCache.hits > 0 /\ Size(ipCache) = 0 /\ now = 0
    /\ ipLists # {}

\* the calls that went to the provider for ip and have returned
LookedUp(ip) ==
    {i \in DOMAIN inFlight :
        /\ inFlight[i].pc = "returned" /\ inFlight[i].input.ip = ip
        /\ IsSome(inFlight[i].up)}

AllReturned == inFlight # <<>> /\ \A i \in DOMAIN inFlight : inFlight[i].pc = "returned"

EntriesFor(ip) == {k \in 1..Len(ipCache.entries) : ipCache.entries[k].key = ip}

\* no call waits for another: whatever the other calls are doing, a call
\* that was made can run, and a call that awaits the provider can take the
\* answer
NoCallWaits ==
    \A i \in DOMAIN inFlight :
        /\ inFlight[i].pc = "called" => CallCanRun(i)
        /\ inFlight[i].pc = "fetching" => CallCanResume(i)

\* a call that went to the provider returns the verdict of the answer it got
\* itself, whatever another call has stored meanwhile
OwnVerdict ==
    \A i \in DOMAIN inFlight :
        (inFlight[i].pc = "returned" /\ IsSome(inFlight[i].up)) =>
            LET in == inFlight[i].input
                own == fetchIpReputation(in.ip, Get(inFlight[i].up))
                rep == IF IsSome(own) THEN Get(own) ELSE createUnknownResult(in.ip)
                locals == Get(inFlight[i].out)
            IN  /\ locals.fetched = 1
                /\ locals.ipReputation = Some(rep)
                /\ locals.result = classifyByReputation(in, rep, now, 1).result

CacheInvariants ==
    /\ Len(ipCache.entries) <= ipCache.maxSize
    /\ \A k, l \in 1..Len(ipCache.entries) :
          ipCache.entries[k].key = ipCache.entries[l].key => k = l

\* C31 as stated: under any interleaving of concurrent classification calls
\* no call waits for another: two calls in flight for the same uncached IP
\* may both miss and both call the provider, each still returns its verdict,
\* and after both have finished the cache holds exactly one entry for that
\* IP and still satisfies its invariants (size <= maxSize, unique keys).
C31_ConcurrentCallsOneEntry ==
    /\ NoCallWaits
    /\ OwnVerdict
    /\ CacheInvariants
    /\ AllReturned =>
          \A i \in DOMAIN inFlight :
              Cardinality(LookedUp(inFlight[i].input.ip)) >= 2 =>
                  Cardinality(EntriesFor(inFlight[i].input.ip)) = 1

(***************************************************************************)
(* C31  Under any interleaving of concurrent classification calls no call  *)
(* waits for another: two calls in flight for the same uncached IP may     *)
(* both miss and both call the provider, each still returns its verdict,   *)
(* and after both have finished the cache holds one entry for that IP when *)
(* at least one of the two lookups succeeded, and none when both failed;   *)
(* it still satisfies its invariants (size <= maxSize, unique keys).       *)
(***************************************************************************)
C31_ConcurrentCalls ==
    /\ NoCallWaits
    /\ OwnVerdict
    /\ CacheInvariants
    /\ AllReturned =>
          \A i \in DOMAIN inFlight :
              LET ip == inFlight[i].input.ip IN
              Cardinality(LookedUp(ip)) >= 2 =>
                  Cardinality(EntriesFor(ip)) =
                      IF \E j \in LookedUp(ip) : Get(inFlight[j].up).kind = "ok"
                      THEN 1 ELSE 0

\* two calls for the same address both missed and both went to the provider
BothInFlight ==
    /\ inFlight # <<>>
    /\ \A i \in DOMAIN inFlight : inFlight[i].pc = "fetching"
    /\ inFlight[1].input.ip = inFlight[2].input.ip

\* two calls for the same address both went to the provider, one was told of
\* a VPN and the other of none, each returned its own verdict, and the cache
\* holds one entry
C31_Witness ==
    /\ AllReturned
    /\ inFlight[1].input.ip = inFlight[2].input.ip
    /\ LookedUp(inFlight[1].input.ip) = {1, 2}
    /\ Get(inFlight[1].out).result.classification = "BAD"
    /\ Get(inFlight[2].out).result.classification = "GOOD"
    /\ Cardinality(EntriesFor(inFlight[1].input.ip)) = 1

Det == Get(detector)

\* a run of analyze() is in progress
Running == IsSome(detector) /\ Det.at # "idle"

\* a run of analyze() has come to its end
Finished == IsSome(detector) /\ Det.at = "idle" /\ Det.runs > 0

FailSafe == ClientResult("WARN", 50)

\* onComplete was called once: with the server's result and no error, or
\* with the fail-safe result after onError
CompletedOnce ==
    /\ Len(Det.results) = 1
    /\ \/ Det.errors = 0 /\ Det.stage = "complete"
       \/ Det.errors = 1 /\ Det.stage = "error" /\ Det.results[1] = FailSafe
    /\ Det.collectBehavior \/ Det.collected = 0
    /\ Det.promise # "pending"

\* C39 as stated: each analyze() run invokes onComplete exactly once: with
\* the server's result on success, or with WARN and score 50 (never BAD)
\* after onError when fingerprinting, behavior collection or the API call
\* fails or times out; analyzeNow() never enters collecting_behavior and its
\* promise settles exactly once.
C39_CompletesExactlyOnce == Running ~> (Finished /\ CompletedOnce)

\* what does hold: a run whose callbacks return calls onComplete at most
\* once, after a failure with the fail-safe result and never with an
\* invented BAD; a run of analyzeNow() collects no behavior
ClientFailSafe ==
    IsSome(detector) =>
        /\ ~Det.onCompleteThrows => Len(Det.results) <= 1
        /\ Det.errors > 0 => Det.results[Len(Det.results)] = FailSafe
        /\ Det.promise # "none" => Det.collected = 0
        /\ (Finished /\ ~Det.onCompleteThrows) => CompletedOnce

\* the edges of the stage diagram
StageEdges ==
    {<<"init", "fingerprinting">>,
     <<"fingerprinting", "collecting_behavior">>,
     <<"fingerprinting", "sending_request">>,
     <<"collecting_behavior", "sending_request">>,
     <<"sending_request", "complete">>,
     <<"fingerprinting", "complete">>}
    \cup {<<s, "error">> : s \in {"init", "fingerprinting", "collecting_behavior",
                                  "sending_request", "complete"}}

\* the stages the detector went through in the present run, from the one it
\* was in before
StagePath == <<Det.stageBefore>> \o Det.progress

\* the instant signals of the collected fingerprint
InstantBad ==
    /\ IsSome(Det.fingerprint)
    /\ LET f == Get(Det.fingerprint) IN
       f.isAutomated \/ f.isHeadless \/ f.isFakeMobile

\* from fingerprinting straight to complete with BAD and score 0, no
\* behavior collected and nothing sent
StraightToBad ==
    /\ Len(Det.progress) >= 2
    /\ Det.progress[1] = "fingerprinting" /\ Det.progress[2] = "complete"
    /\ Len(Det.results) >= 1
    /\ Det.results[1] = ClientResult("BAD", 0)
    /\ Det.collected = 0
    /\ Det.requests = 0

\* C40 as stated: the detector's stage only moves forward along init ->
\* fingerprinting -> [collecting_behavior] -> sending_request -> complete,
\* or from any of these to error; when the collected fingerprint has
\* isAutomated, isHeadless or isFakeMobile set, it goes from fingerprinting
\* straight to complete with a BAD result of score 0, without starting
\* behavior collection and without sending any request.
C40_StageMovesForward ==
    IsSome(detector) =>
        /\ \A k \in 1..(Len(StagePath) - 1) :
              <<StagePath[k], StagePath[k + 1]>> \in StageEdges
        /\ InstantBad => StraightToBad

(***************************************************************************)
(* C40  Within one run of analyze() the detector's stage only moves        *)
(* forward along fingerprinting -> [collecting_behavior] ->                *)
(* sending_request -> complete, or from any of these to error; a run       *)
(* starts at fingerprinting from whatever stage the detector is in: init,  *)
(* or the complete or error of the run before.  When the collected         *)
(* fingerprint has isAutomated, isHeadless or isFakeMobile set, it goes    *)
(* from fingerprinting straight to complete with a BAD result of score 0,  *)
(* without starting behavior collection and without sending any request.   *)
(***************************************************************************)
C40_StageMovesForwardInRun ==
    IsSome(detector) =>
        /\ Det.stageBefore \in {"init", "complete", "error"}
        /\ Det.runs <= 1 => Det.stageBefore = "init"
        /\ \A k \in 1..(Len(Det.progress) - 1) :
              <<Det.progress[k], Det.progress[k + 1]>> \in StageEdges
        /\ Det.progress # <<>> => Det.progress[1] = "fingerprinting"
        /\ InstantBad => StraightToBad

\* a headless browser on a detector that collects behavior: complete, BAD,
\* nothing collected and nothing sent
C40_Witness ==
    /\ Finished
    /\ Det.collectBehavior
    /\ IsSome(Det.fingerprint) /\ Get(Det.fingerprint).isHeadless
    /\ ~Get(Det.fingerprint).isAutomated
    /\ Det.progress = <<"fingerprinting", "complete">>
    /\ Det.results = <<ClientResult("BAD", 0)>>
    /\ Det.requests = 0
=============================================================================
